---- MODULE Spec2Model ----
(***************************************************************************)
(* Model of main_loop_tf: the multi-device graph construction of           *)
(* Experiment.__build_device_graph, the gradient utilities of utils.py and *)
(* the training loop of Experiment._main_loop with its EarlyStopHook.      *)
(*                                                                         *)
(* A TensorFlow graph is data here: a summary is a record that names the   *)
(* device slots whose output, loss or gradient its value is computed from, *)
(* a gradient is a record naming the slot and the variable it belongs to,  *)
(* and an operation is a record naming what it consumes.                   *)
(***************************************************************************)
EXTENDS Integers, Sequences, FiniteSets, TLC

\* ------------------------------------------------------------------ bounds
MaxDevs == 3        \* cfg.num_devs ranges over 1..MaxDevs
MaxBatch == 2       \* cfg.batch_size (rows per device) ranges over 1..MaxBatch
NVars == 2          \* number of trainable variables of the user's model
MaxNBatches == 2    \* self.train.nbatches ranges over 1..MaxNBatches
MaxSteps == 2       \* batches pulled in one run
MaxTowers == 3      \* towers handed to utils.average_gradients
ExtraRows == 1      \* the dataset may yield up to num_devs*batch_size+ExtraRows rows
MaxLoopSteps == 5   \* batches pulled in one run of the loop-control specification

Vars == 1..NVars

\* A gradient tensor: the slot that computed it and the variable it is for.
\* Python's None (the variable is not on the loss path) is NoneGrad.
NoneGrad == [dev |-> -1, var |-> 0]
Grad(d, v) == [dev |-> d, var |-> v]

\* The devices cfg.devices lists are distinct, so that the T collection names
\* phase_set + device_str are distinct; slot i stands for cfg.devices[i].
Slots(T) == 0..(T - 1)

\* ------------------------------------------------------------------ state
VARIABLES
    cfg,                \* the configuration namespace (read-only after Init)
    pc,                 \* position of the coordinating thread
    graph_built,        \* self._graph_built
    cum_grads_and_vars, \* self.cum_grads_and_vars: var -> list of gradients
    collections,        \* the graph's summary collections: key -> set of summaries
    scope_log,          \* the variable scopes opened so far, with their reuse flag
    build,              \* locals of the __build_device_graph call in progress
    val_idx,            \* __build_graph: index in cfg.val_on_sets of the next graph
    train_graph_outs,   \* self.train_graph_outs
    val_graph_outs,     \* self.val_graph_outs: which_set -> graph_out
    global_step,        \* the graph's global_step variable
    global_step_val,    \* self.global_step_val
    epoch_id,           \* self.epoch_id
    batch_id,           \* _main_loop: loop index of the batch loop
    minibatch,          \* self._minibatch: its number of rows
    this_n_splits,      \* batch_do: the active device count of the step
    feed_dict,          \* self._feed_dict
    fetch,              \* what the last sess.run executed and fetched
    loss_value,         \* self.loss_value
    val_skip,           \* EarlyStopHook.val_skip
    stop,               \* sess.should_stop()
    hook,               \* EarlyStopHook: patience counter, history, estop
    return_value,       \* self.return_value: <<>> until it is set
    nsteps,             \* batches pulled so far in this run
    step_cap,           \* the number of batches a run is followed for
    calls,              \* how often each callback of the loop has run, and the last
    obs,                \* what the run has shown so far (restored step, stops, ...)
    err,                \* the exception that ended the run, "none" otherwise
    tower_grads,        \* utils.average_gradients: its argument
    avg_out,            \* utils.average_gradients: its outcome, once called
    metrics_val,        \* Experiment.validate: which_set -> metric, once it ran
    prev_subset,        \* validate.py: the subset of the last batch that reset
    cm_resets,          \* the batches at which this call reset the confusion matrix
    valid_params,       \* cfg.valid_params, the arguments of the validation set
    num_splits,         \* cfg.num_splits
    val_sets,           \* the batch size of the set each call of validate built
    vcfg,               \* validate.py: nthreads, nbatches, the items that fail
    vmain,              \* validate.py validate: position of the main thread
    bidx,               \* validate: index of the batch loop
    npills,             \* validate: poison pills put so far
    tot_loss,           \* validate: the loss accumulated by the batch loop
    img_queue,          \* validate: the items in img_queue, oldest first
    unfinished,         \* img_queue.unfinished_tasks
    workers,            \* save_images: position and locals of each thread
    vstop,              \* cfg.sv.should_stop()
    vlog,               \* validate.py: gets and done marks per item, errors logged
    pg_args,            \* utils.process_gradients: its arguments
    pg_out,             \* utils.process_gradients: its outcome, once called
    step_in,            \* a training step: the minibatch and the slots' losses
    step_out            \* a training step: what it computed, once it ran

buildVars == <<graph_built, cum_grads_and_vars, collections, scope_log, build,
               val_idx, train_graph_outs, val_graph_outs>>
loopVars == <<global_step, global_step_val, epoch_id, batch_id, minibatch,
              this_n_splits, feed_dict, fetch, loss_value, val_skip, nsteps>>
avgVars == <<tower_grads, avg_out>>
hookVars == <<hook, return_value, step_cap, calls, obs>>
cmVars == <<prev_subset, cm_resets>>
valVars == <<vcfg, vmain, bidx, npills, tot_loss, img_queue, unfinished, workers,
             vstop, vlog, cmVars>>
pgVars == <<pg_args, pg_out>>
stepVars == <<step_in, step_out>>
paramVars == <<valid_params, num_splits, val_sets>>
mainVars == <<cfg, pc, buildVars, loopVars, stop, err, hookVars, metrics_val>>
vars == <<mainVars, avgVars, valVars, pgVars, stepVars, paramVars>>

\* ------------------------------------------------------ graph construction

\* main.py:482  phase_set, kept as the pair it is built from.
PhaseSet(which_set, is_training) == <<is_training, which_set>>

\* main.py:488-492  one collection name per configured device.
SummaryNames(which_set, is_training) ==
    [i \in 1..cfg.num_devs |-> <<PhaseSet(which_set, is_training), i - 1>>]

\* main.py:478-492  the locals of __build_device_graph before its first loop.
ReuseInit(is_training) == ~is_training

StartDeviceGraph(which_set, is_training) ==
    [which_set |-> which_set,
     is_training |-> is_training,
     reuse_variables |-> ReuseInit(is_training),
     summaries |-> SummaryNames(which_set, is_training),
     these_s |-> SummaryNames(which_set, is_training),
     dev_id |-> 0,
     stacked_model_outs |-> <<>>,
     stacked_loss_outs |-> <<>>,
     update_ops |-> {},
     grad_ops |-> <<>>,
     avg_grads_and_vars |-> <<>>]

NoBuild ==
    [which_set |-> "", is_training |-> FALSE, reuse_variables |-> FALSE,
     summaries |-> <<>>, these_s |-> <<>>, dev_id |-> 0,
     stacked_model_outs |-> <<>>, stacked_loss_outs |-> <<>>,
     update_ops |-> {}, grad_ops |-> <<>>, avg_grads_and_vars |-> <<>>]

\* A summary operation. srcs: the device slots whose output, loss or gradient
\* the value is computed from; trunc: the value is computed from the stacked
\* towers truncated at run time to the first sym_num_devs slots.
Summary(tag, v, srcs, trunc) == [tag |-> tag, var |-> v, srcs |-> srcs, trunc |-> trunc]

\* tf.get_collection_ref(key): the collection, empty when nothing joined it.
Coll(colls, k) == IF k \in DOMAIN colls THEN colls[k] ELSE {}

\* tf.summary.*(..., collections=keys): the op joins every named collection.
AddToCollections(colls, keys, s) ==
    [k \in DOMAIN colls \cup {keys[i] : i \in 1..Len(keys)} |->
        IF \E i \in 1..Len(keys) : keys[i] = k
        THEN Coll(colls, k) \cup {s} ELSE colls[k]]

RECURSIVE AddAll(_, _, _)
AddAll(colls, keys, ss) ==
    IF ss = {} THEN colls
    ELSE LET s == CHOOSE x \in ss : TRUE
         IN  AddAll(AddToCollections(colls, keys, s), keys, ss \ {s})

\* main.py:542  the summaries replica d emits: the scalar of its loss.
DevSummaries(d) == {Summary("loss", 0, {d}, FALSE)}

\* utils.recursive_dict_stack: append this device's tensors to the towers.
recursive_dict_stack(dev_out, stacked) == Append(stacked, dev_out)

\* optimization.compute_and_process_grads: one (gradient, variable) pair per
\* trainable variable, the gradient None when the loss does not reach it.
compute_and_process_grads(d) ==
    [v \in Vars |-> IF v \in cfg.unused THEN NoneGrad ELSE Grad(d, v)]

\* main.py:573-575  self.cum_grads_and_vars.setdefault(v, []).append(g)
CumAppendFront(cum, gv) == [v \in Vars |-> <<gv[v]>> \o cum[v]]
CumAppend(cum, gv) == [v \in Vars |-> Append(cum[v], gv[v])]

\* main.py:598  these_s = these_s[1:]
NextTheseSKeep(these_s) == these_s
NextTheseS(these_s) == IF these_s = <<>> THEN <<>> ELSE Tail(these_s)

\* main.py:521-522  reuse_variables = True  # Reuse from now on
ReuseAfterFirstBug(r) == r
ReuseAfterFirst(r) == TRUE

\* main.py:497-598  one iteration of the loop over the devices.
BuildDevice ==
    /\ pc = "dev_loop"
    /\ build.dev_id < cfg.num_devs
    /\ LET d == build.dev_id
           r == build.reuse_variables
           key == PhaseSet(build.which_set, build.is_training)
       IN  /\ scope_log' = scope_log \cup
                   {[graph |-> key, dev |-> d, scope |-> "model", reuse |-> r],
                    [graph |-> key, dev |-> d, scope |-> "loss", reuse |-> r]}
           /\ collections' = AddAll(collections, build.these_s, DevSummaries(d))
           /\ cum_grads_and_vars' =
                 IF build.is_training
                 THEN CumAppend(cum_grads_and_vars, compute_and_process_grads(d))
                 ELSE cum_grads_and_vars
           /\ build' = [build EXCEPT
                 !.reuse_variables = ReuseAfterFirst(r),
                 !.stacked_loss_outs = recursive_dict_stack(d, @),
                 !.stacked_model_outs = recursive_dict_stack(d, @),
                 !.these_s = NextTheseS(@),
                 !.dev_id = d + 1]
    /\ UNCHANGED <<cfg, pc, graph_built, val_idx, train_graph_outs,
                   val_graph_outs, loopVars, stop, err>>
    /\ UNCHANGED <<avgVars, hookVars, metrics_val, valVars, pgVars, stepVars, paramVars>>

\* Decimal str(d) is a prefix of decimal str(e): the name scope 'T.dev' + str(d)
\* is matched as a prefix (re.match) by tf.get_collection(key, scope=...).
RECURSIVE DecPrefix(_, _)
DecPrefix(d, e) == \/ d = e
                   \/ e >= 10 /\ DecPrefix(d, e \div 10)

\* main.py:607-608  tf.get_collection(UPDATE_OPS, scope='T.dev' + str(dev_id)):
\* every slot built one update operation, named by its slot.
UpdateOpsInScope(d) == {e \in Slots(cfg.num_devs) : DecPrefix(d, e)}

\* main.py:612-614  the up_to_dev argument of the call for slot dev_id.
UpToDevNext(dev_id) == dev_id + 1
UpToDev(dev_id) == dev_id

\* optimization.average_gradients(cum_grads_and_vars, scope, up_to_dev): per
\* variable, the mean of the first up_to_dev + 1 gradients of its list; a
\* variable with a None gradient among them gets None.
optimization_average_gradients(cum, up_to_dev) ==
    [v \in Vars |->
        LET n == IF up_to_dev + 1 <= Len(cum[v]) THEN up_to_dev + 1 ELSE Len(cum[v])
            gs == SubSeq(cum[v], 1, n)
        IN  [var |-> v,
             grads |-> gs,
             none |-> \E i \in 1..n : gs[i] = NoneGrad]]

\* main.py:604-627  one iteration of the loop that builds the train operations.
BuildGradOp ==
    /\ pc = "grad_loop"
    /\ build.dev_id < cfg.num_devs
    /\ LET d == build.dev_id
           ups == build.update_ops \cup UpdateOpsInScope(d)
           avg == optimization_average_gradients(cum_grads_and_vars, UpToDev(d))
           grad_op == [avg |-> avg, deps |-> ups]
       IN  build' = [build EXCEPT
                 !.update_ops = ups,
                 !.avg_grads_and_vars = avg,
                 !.grad_ops = Append(@, grad_op),
                 !.dev_id = d + 1]
    /\ UNCHANGED <<cfg, pc, graph_built, cum_grads_and_vars, collections,
                   scope_log, val_idx, train_graph_outs, val_graph_outs,
                   loopVars, stop, err>>
    /\ UNCHANGED <<avgVars, hookVars, metrics_val, valVars, pgVars, stepVars, paramVars>>

\* main.py:556, 600-601  the device loop is over: average the gradients when
\* training, merge the towers otherwise.
EndDeviceLoop ==
    /\ pc = "dev_loop"
    /\ build.dev_id = cfg.num_devs
    /\ pc' = IF build.is_training THEN "grad_loop" ELSE "merge"
    /\ build' = [build EXCEPT !.dev_id = 0]
    /\ UNCHANGED <<cfg, graph_built, cum_grads_and_vars, collections, scope_log,
                   val_idx, train_graph_outs, val_graph_outs, loopVars, stop, err>>
    /\ UNCHANGED <<avgVars, hookVars, metrics_val, valVars, pgVars, stepVars, paramVars>>

EndGradLoop ==
    /\ pc = "grad_loop"
    /\ build.dev_id = cfg.num_devs
    /\ pc' = "merge"
    /\ UNCHANGED <<cfg, graph_built, cum_grads_and_vars, collections, scope_log,
                   build, val_idx, train_graph_outs, val_graph_outs, loopVars,
                   stop, err>>
    /\ UNCHANGED <<avgVars, hookVars, metrics_val, valVars, pgVars, stepVars, paramVars>>

\* main.py:629-633  the histograms of the gradients: of the averaged gradients
\* left by the last iteration of the loop above, into every collection.
GradHistograms(avg) ==
    {Summary("grads", v, {avg[v].grads[i].dev : i \in 1..Len(avg[v].grads)}, FALSE) :
        v \in {w \in Vars : ~avg[w].none}}

\* main.py:651-704  the summaries of the merged towers, into every collection:
\* the batch size, the average loss and, when training, the loss components
\* and the trainable variables.
GlobalSummaries(is_training) ==
    {Summary("batch_size", 0, {}, TRUE), Summary("avg_loss", 0, {}, TRUE)}
    \cup (IF is_training
          THEN {Summary("avg_loss_comp", 0, {}, TRUE)}
               \cup {Summary("var", v, {}, FALSE) : v \in Vars}
          ELSE {})

\* main.py:716-718  summary_ops: one merge per collection name, in order.
SummaryOps(colls, summaries) ==
    [i \in 1..Len(summaries) |-> Coll(colls, summaries[i])]

NoGraphOut == [model_outs |-> <<>>, loss_outs |-> <<>>, summary_ops |-> <<>>,
               grad_ops |-> <<>>]

\* main.py:629-733  the rest of __build_device_graph, and the step of the
\* caller (main.py:370-380) that stores its result and goes on to the next
\* validation graph.
MergeTowers ==
    /\ pc = "merge"
    /\ LET hist == IF build.is_training
                   THEN GradHistograms(build.avg_grads_and_vars) ELSE {}
           colls == AddAll(collections, build.summaries,
                           hist \cup GlobalSummaries(build.is_training))
           graph_out == [model_outs |-> build.stacked_model_outs,
                         loss_outs |-> build.stacked_loss_outs,
                         summary_ops |-> SummaryOps(colls, build.summaries),
                         grad_ops |-> build.grad_ops]
       IN  /\ collections' = colls
           /\ IF build.is_training
              THEN /\ train_graph_outs' = graph_out
                   /\ UNCHANGED val_graph_outs
              ELSE /\ val_graph_outs' =
                        [s \in DOMAIN val_graph_outs \cup {build.which_set} |->
                            IF s = build.which_set THEN graph_out
                            ELSE val_graph_outs[s]]
                   /\ UNCHANGED train_graph_outs
    /\ IF val_idx <= Len(cfg.val_on_sets)
       THEN /\ build' = StartDeviceGraph(cfg.val_on_sets[val_idx], FALSE)
            /\ val_idx' = val_idx + 1
            /\ pc' = "dev_loop"
       ELSE /\ build' = NoBuild
            /\ UNCHANGED val_idx
            /\ pc' = "built"
    /\ UNCHANGED <<cfg, graph_built, cum_grads_and_vars, scope_log, loopVars,
                   stop, err>>
    /\ UNCHANGED <<avgVars, hookVars, metrics_val, valVars, pgVars, stepVars, paramVars>>

\* main.py:306  the test of the already-built flag.
BuiltTwiceNever(flag) == FALSE
BuiltTwice(flag) == flag

\* main.py:305-371  __build_graph up to the first __build_device_graph call:
\* the call of __init__ (main.py:90) and any later call on the same object,
\* which raises before it builds anything.
BuildGraph ==
    /\ pc \in {"new", "built"}
    /\ IF BuiltTwice(graph_built)
       THEN /\ err' = "RuntimeError"
            /\ pc' = "failed"
            /\ UNCHANGED <<buildVars>>
       ELSE /\ graph_built' = TRUE
            /\ build' = StartDeviceGraph("train", TRUE)
            /\ val_idx' = 1
            /\ pc' = "dev_loop"
            /\ UNCHANGED <<cum_grads_and_vars, collections, scope_log,
                           train_graph_outs, val_graph_outs, err>>
    /\ UNCHANGED <<cfg, loopVars, stop>>
    /\ UNCHANGED <<avgVars, hookVars, metrics_val, valVars, pgVars, stepVars, paramVars>>

\* ------------------------------------------------------------ EarlyStopHook

\* hooks.py is not among the files of the repository at hand: the hook that
\* main.py:793-795 installs is modelled from the specification, sections 4.5
\* (EpochEnd) and 4.6 (the checkpoint policy). The session runs it after the
\* train step that ends an epoch.

\* The validation metrics validate_fn can return.
MetricVals == {1, 2}

RECURSIVE MaxOfSeq(_)
MaxOfSeq(xs) ==
    IF Len(xs) = 1 THEN xs[1]
    ELSE LET m == MaxOfSeq(Tail(xs)) IN IF xs[1] >= m THEN xs[1] ELSE m

NoHook == [patience_counter |-> 0, history |-> <<>>, estop |-> FALSE, saved |-> 0,
           nsaves |-> 0]

\* The reset value of the skip counter: max(1, val_every_epochs) - 1.
ValSkipReset == (IF cfg.val_every_epochs >= 1 THEN cfg.val_every_epochs ELSE 1) - 1

\* The hook as get_hooks creates it: the skip counter starts from
\* cfg.val_skip_first.
EarlyStopHook_init == [hook |-> NoHook, val_skip |-> cfg.val_skip_first]

\* Is this the last epoch: a stop has been requested or the maximum epoch is
\* reached.
LastEpoch(ep, stop_req) == stop_req \/ ep >= cfg.max_epochs - 1

\* Does the hook validate at the end of this epoch.
Validates(h, vskip, ep, stop_req) ==
    LastEpoch(ep, stop_req) \/ h.estop \/ vskip = 0

\* The best checkpoint is saved, and the patience counter reset, when the metric is >= the maximum of the history,
\* the metric itself included: a tie is an improvement.
ImprovedStrictly(m, history) == \A i \in 1..(Len(history) - 1) : m > history[i]
Improved(m, history) == m >= MaxOfSeq(history)

\* Early stop can trigger from epoch cfg.min_epochs on.
PastMinEpochsAlways(ep) == TRUE
PastMinEpochs(ep) == ep >= cfg.min_epochs

\* The value the run reports: the best metric of the history.
LastMetric(history) == history[Len(history)]
BestMetric(history) == MaxOfSeq(history)

\* The end of epoch ep as the hook handles it, validate_fn returning metric m
\* when it is called: the metric joins the history; a metric >= the maximum of
\* the history is an improvement, which saves the best checkpoint and resets the
\* patience counter; otherwise the patience counter grows, and early stop
\* triggers once it exceeds cfg.patience, from epoch cfg.min_epochs on. After
\* a validation the skip counter is left one above its reset value, the one
\* that main.py:992-996 takes off at the end of every epoch.
EarlyStopHook_epoch_end(h, vskip, ep, stop_req, m) ==
    LET history == Append(h.history, m)
        improved == Improved(m, history)
        counter == IF improved THEN 0 ELSE h.patience_counter + 1
        estop == ~improved /\ counter > cfg.patience /\ PastMinEpochs(ep)
    IN  IF Validates(h, vskip, ep, stop_req)
        THEN [hook |-> [patience_counter |-> counter,
                        history |-> history,
                        estop |-> h.estop \/ estop,
                        saved |-> IF improved THEN m ELSE h.saved,
                        nsaves |-> IF improved THEN h.nsaves + 1 ELSE h.nsaves],
              return_value |-> <<BestMetric(history)>>,
              val_skip |-> ValSkipReset + 1,
              validated |-> TRUE,
              stop_by |-> (IF ep >= cfg.max_epochs - 1 THEN {"max_epochs"} ELSE {})
                          \cup (IF h.estop \/ estop THEN {"early_stop"} ELSE {})]
        ELSE [hook |-> h, return_value |-> return_value, val_skip |-> vskip,
              validated |-> FALSE, stop_by |-> {}]

\* ------------------------------------------------------------ training loop

\* The callbacks of _main_loop, counted as they are entered.
Callbacks == {"experiment_begin", "epoch_begin", "batch_begin", "batch_do",
              "batch_end", "epoch_end", "experiment_end"}
NoCalls == [count |-> [c \in Callbacks |-> 0], last |-> "none"]
Called(c) == [count |-> [calls.count EXCEPT ![c] = @ + 1], last |-> c]

NoObs == [restored |-> 0, stop_at_pull |-> FALSE, stop_by |-> {}, val_epochs |-> {},
          entry |-> "none", uninit |-> FALSE]

\* main.py:957-959  the number of devices the minibatch can feed.
ThisNSplitsFloor(rows, batch_size) == rows \div batch_size
ThisNSplitsPlusOne(rows, batch_size) == (rows \div batch_size) + 1
ThisNSplits(rows, batch_size) ==
    (rows \div batch_size) + (IF rows % batch_size # 0 THEN 1 ELSE 0)

\* numpy.array_split(rows, n), n >= 1: the first (rows mod n) chunks hold
\* rows div n + 1 rows, the others rows div n; rows are numbered 1..rows.
ChunkSizeRestLast(rows, n, i) == (rows \div n) + (IF i = n THEN rows % n ELSE 0)
ChunkSize(rows, n, i) == (rows \div n) + (IF i <= rows % n THEN 1 ELSE 0)

RECURSIVE ChunkStart(_, _, _)
ChunkStart(rows, n, i) ==
    IF i = 1 THEN 1 ELSE ChunkStart(rows, n, i - 1) + ChunkSize(rows, n, i - 1)

\* utils.py:27-40  split_in_chunks: the rows of each of the gpus_used chunks.
split_in_chunks(rows, gpus_used) ==
    [i \in 1..gpus_used |->
        [j \in 1..ChunkSize(rows, gpus_used, i) |->
            ChunkStart(rows, gpus_used, i) + j - 1]]

\* main.py:917-932  what get_feed_dict raises: numpy.array_split refuses a
\* number of sections <= 0, and with more chunks than placeholders zip_longest
\* pairs a chunk with the fill value, whose arrays cannot key the feed dict.
FeedError(n_splits) ==
    IF n_splits <= 0 THEN "ValueError"
    ELSE IF n_splits > cfg.num_devs THEN "TypeError"
    ELSE "none"

\* main.py:915-940  get_feed_dict: slot i gets chunk i, the slots beyond the
\* chunks get the first chunk.
get_feed_dict_fill_last(rows, n_splits, prev_err) ==
    LET chunks == split_in_chunks(rows, n_splits)
    IN  [slots |-> [i \in 1..cfg.num_devs |->
                        IF i <= n_splits THEN chunks[i] ELSE chunks[n_splits]],
         num_devs |-> n_splits,
         num_batches |-> rows,
         prev_err |-> prev_err]
get_feed_dict(rows, n_splits, prev_err) ==
    LET chunks == split_in_chunks(rows, n_splits)
    IN  [slots |-> [i \in 1..cfg.num_devs |->
                        IF i <= n_splits THEN chunks[i] ELSE chunks[1]],
         num_devs |-> n_splits,
         num_batches |-> rows,
         prev_err |-> prev_err]

NoFeed == [slots |-> <<>>, num_devs |-> 0, num_batches |-> 0, prev_err |-> 0]
NoFetch == [train_op |-> -1, summary_op |-> -1, summary_step |-> -1,
            avg_loss |-> 0]

\* Python's list[i]: the 0-based position read, -1 for an IndexError.
PyIndex(len, i) ==
    IF 0 <= i /\ i < len THEN i
    ELSE IF i < 0 /\ -i <= len THEN len + i
    ELSE -1

\* main.py:964  which_op = this_n_splits - 1
WhichOpLast(n_splits) == -1
WhichOp(n_splits) == n_splits - 1

\* main.py:970  is this a step whose summaries are fetched and written.
SummaryStep(step) == step % cfg.train_summary_freq = 0

\* The losses the user's model can produce.
LossVals == {1, 2}

\* main.py:979-981  self.loss_value = fetch_dict['avg_loss'].
LossValueKept(loss, avg_loss) == loss
LossValueAfter(loss, avg_loss) == avg_loss

\* main.py:620-622  apply_gradients(..., global_step=self.global_step): the
\* train operation that is run, whichever of the list, adds one to the step.
GlobalStepPerSplit(step, n_splits) == step + n_splits
GlobalStepAfter(step, n_splits) == step + 1

\* main.py:942-981  batch_do; the session's run calls the hooks, and the train
\* step of the last batch of an epoch is the end of the epoch for the
\* EarlyStopHook.
batch_do ==
    /\ pc = "batch_do"
    /\ calls' = Called("batch_do")
    /\ LET n == ThisNSplits(minibatch, cfg.batch_size)
           ferr == FeedError(n)
           which_op == WhichOp(n)
           g == PyIndex(Len(train_graph_outs.grad_ops), which_op)
           s == PyIndex(Len(train_graph_outs.summary_ops), which_op)
           epoch_ends == batch_id = cfg.nbatches - 1
           validates == epoch_ends /\ Validates(hook, val_skip, epoch_id, stop)
       IN  /\ this_n_splits' = n
           /\ IF ferr # "none"
              THEN /\ err' = ferr
                   /\ pc' = "failed"
                   /\ UNCHANGED <<feed_dict, fetch, loss_value, global_step,
                                  hook, val_skip, stop, obs, return_value>>
              ELSE /\ feed_dict' = get_feed_dict(minibatch, n, loss_value)
                   /\ IF g = -1 \/ s = -1
                      THEN /\ err' = "IndexError"
                           /\ pc' = "failed"
                           /\ UNCHANGED <<fetch, loss_value, global_step,
                                          hook, val_skip, stop, obs, return_value>>
                      ELSE \E l \in LossVals :
                           \E m \in (IF validates THEN MetricVals ELSE {0}) :
                           LET e == EarlyStopHook_epoch_end(
                                        hook, val_skip, epoch_id, stop, m)
                           IN
                           /\ fetch' = [train_op |-> g,
                                        summary_op |->
                                            IF SummaryStep(global_step_val)
                                            THEN s ELSE -1,
                                        summary_step |->
                                            IF SummaryStep(global_step_val)
                                            THEN global_step_val ELSE -1,
                                        avg_loss |-> l]
                           /\ loss_value' = LossValueAfter(loss_value, l)
                           /\ global_step' = GlobalStepAfter(global_step, n)
                           /\ IF epoch_ends
                              THEN /\ hook' = e.hook
                                   /\ return_value' = e.return_value
                                   /\ val_skip' = e.val_skip
                                   /\ stop' = (stop \/ e.stop_by # {})
                                   /\ obs' = [obs EXCEPT
                                         !.stop_by = @ \cup e.stop_by,
                                         !.val_epochs =
                                             IF e.validated
                                             THEN @ \cup {epoch_id} ELSE @]
                              ELSE UNCHANGED <<hook, val_skip, stop, obs, return_value>>
                           /\ pc' = "batch_end"
                           /\ UNCHANGED err
    /\ UNCHANGED <<cfg, buildVars, global_step_val, epoch_id, batch_id,
                   minibatch, nsteps, step_cap>>
    /\ UNCHANGED <<avgVars, metrics_val, valVars, pgVars, stepVars, paramVars>>

\* main.py:743-746, 758-761  the test on what the session reports as
\* uninitialized.
UninitRaisesNever(uninit_vars) == FALSE
UninitRaises(uninit_vars) == uninit_vars > 0

\* main.py:797-820  _init_sess: the hooks are built and the session created,
\* restoring the global step of the checkpoint, if any; then run and validate
\* ask it for the uninitialized variables (uninit_vars of them).
InitSess(entry, uninit_vars) ==
    /\ \E g \in {0, 1} :
           /\ global_step' = g
           /\ obs' = [obs EXCEPT !.restored = g, !.entry = entry,
                                 !.uninit = uninit_vars > 0]
    /\ hook' = EarlyStopHook_init.hook
    /\ val_skip' = EarlyStopHook_init.val_skip

\* main.py:735-749  run: the session, the test for uninitialized variables,
\* then the training loop.
Run ==
    /\ pc = "built"
    /\ \E uninit_vars \in 0..NVars :
           /\ InitSess("run", uninit_vars)
           /\ IF UninitRaises(uninit_vars)
              THEN /\ err' = "RuntimeError"
                   /\ pc' = "failed"
              ELSE /\ pc' = "experiment_begin"
                   /\ UNCHANGED err
    /\ UNCHANGED <<cfg, buildVars, global_step_val, epoch_id, batch_id, minibatch,
                   this_n_splits, feed_dict, fetch, loss_value, nsteps,
                   stop, step_cap, calls, return_value>>
    /\ UNCHANGED <<avgVars, metrics_val, valVars, pgVars, stepVars, paramVars>>

\* main.py:762-773  the metric of each set of cfg.val_on_sets, in their order.
ValidateSets(m) ==
    [i \in 1..Len(cfg.val_on_sets) |->
        [which_set |-> cfg.val_on_sets[i], metric |-> m[i]]]

\* main.py:751-773  validate: the session, the test for uninitialized
\* variables, then validate_fn on every set of cfg.val_on_sets; without a
\* validate_fn it raises ValueError.
Validate ==
    /\ pc = "built"
    /\ \E uninit_vars \in 0..NVars, has_validate_fn \in BOOLEAN :
           /\ InitSess("validate", uninit_vars)
           /\ IF UninitRaises(uninit_vars)
              THEN /\ err' = "RuntimeError"
                   /\ pc' = "failed"
                   /\ UNCHANGED metrics_val
              ELSE IF has_validate_fn
              THEN /\ \E m \in [1..Len(cfg.val_on_sets) -> MetricVals] :
                          metrics_val' = ValidateSets(m)
                   /\ pc' = "validated"
                   /\ UNCHANGED err
              ELSE /\ err' = "ValueError"
                   /\ pc' = "failed"
                   /\ UNCHANGED metrics_val
    /\ UNCHANGED <<cfg, buildVars, global_step_val, epoch_id, batch_id, minibatch,
                   this_n_splits, feed_dict, fetch, loss_value, nsteps,
                   stop, step_cap, calls, return_value>>
    /\ UNCHANGED <<avgVars, valVars, pgVars, stepVars, paramVars>>

\* main.py:852-890  experiment_begin.
experiment_begin ==
    /\ pc = "experiment_begin"
    /\ calls' = Called("experiment_begin")
    /\ loss_value' = 0
    /\ global_step_val' = global_step
    /\ pc' = "loop_top"
    /\ UNCHANGED <<cfg, buildVars, global_step, epoch_id, batch_id, minibatch,
                   this_n_splits, feed_dict, fetch, val_skip, nsteps, stop, err,
                   hook, return_value, step_cap, obs>>
    /\ UNCHANGED <<avgVars, metrics_val, valVars, pgVars, stepVars, paramVars>>

\* main.py:826  the loop test: while not self.sess.should_stop().
AtLoopTestOrBatch == pc \in {"loop_top", "batch_top"}
AtLoopTest == pc = "loop_top"
LoopExitsAlways(should_stop) == TRUE
LoopExits(should_stop) == should_stop

\* main.py:893  the epoch index.
EpochIdNext(step, nbatches) == (step \div nbatches) + 1
EpochIdIsStep(step, nbatches) == step
EpochId(step, nbatches) == step \div nbatches

\* main.py:829  range(self.train.nbatches) is exhausted.
BatchLoopOverAtOnce(b, nbatches) == b >= 0
BatchLoopOver(b, nbatches) == b >= nbatches

\* main.py:826-827, 892-903  the loop test passes: epoch_begin. A run is
\* followed for whole epochs only, step_cap batches at most.
epoch_begin ==
    /\ AtLoopTest
    /\ ~LoopExits(stop)
    /\ nsteps + cfg.nbatches <= step_cap
    /\ calls' = Called("epoch_begin")
    /\ epoch_id' = EpochId(global_step_val, cfg.nbatches)
    /\ batch_id' = 0
    /\ pc' = "batch_top"
    /\ UNCHANGED <<cfg, buildVars, global_step, global_step_val, minibatch,
                   this_n_splits, feed_dict, fetch, loss_value, val_skip, nsteps,
                   stop, err, hook, return_value, step_cap, obs>>
    /\ UNCHANGED <<avgVars, metrics_val, valVars, pgVars, stepVars, paramVars>>

\* main.py:829-830, 905-913  batch_begin: the dataset yields the next minibatch.
batch_begin ==
    /\ pc = "batch_top"
    /\ ~BatchLoopOver(batch_id, cfg.nbatches)
    /\ calls' = Called("batch_begin")
    /\ \E rows \in 0..(cfg.num_devs * cfg.batch_size + ExtraRows) :
           minibatch' = rows
    /\ nsteps' = nsteps + 1
    /\ obs' = [obs EXCEPT !.stop_at_pull = @ \/ stop]
    /\ pc' = "batch_do"
    /\ UNCHANGED <<cfg, buildVars, global_step, global_step_val, epoch_id,
                   batch_id, this_n_splits, feed_dict, fetch, loss_value,
                   val_skip, stop, err, hook, return_value, step_cap>>
    /\ UNCHANGED <<avgVars, metrics_val, valVars, pgVars, stepVars, paramVars>>

\* main.py:983-990  batch_end.
batch_end ==
    /\ pc = "batch_end"
    /\ calls' = Called("batch_end")
    /\ global_step_val' = global_step_val + 1
    /\ batch_id' = batch_id + 1
    /\ pc' = "batch_top"
    /\ UNCHANGED <<cfg, buildVars, global_step, epoch_id, minibatch,
                   this_n_splits, feed_dict, fetch, loss_value, val_skip, nsteps,
                   stop, err, hook, return_value, step_cap, obs>>
    /\ UNCHANGED <<avgVars, metrics_val, valVars, pgVars, stepVars, paramVars>>

\* main.py:996  hook.val_skip -= 1
ValSkipKept(v) == v
ValSkipAfterEpoch(v) == v - 1

\* main.py:834, 992-996  the batch loop is over: epoch_end.
epoch_end ==
    /\ pc = "batch_top"
    /\ BatchLoopOver(batch_id, cfg.nbatches)
    /\ calls' = Called("epoch_end")
    /\ val_skip' = ValSkipAfterEpoch(val_skip)
    /\ pc' = "loop_top"
    /\ UNCHANGED <<cfg, buildVars, global_step, global_step_val, epoch_id,
                   batch_id, minibatch, this_n_splits, feed_dict, fetch,
                   loss_value, nsteps, stop, err, hook, return_value, step_cap, obs>>
    /\ UNCHANGED <<avgVars, metrics_val, valVars, pgVars, stepVars, paramVars>>

\* main.py:826, 836-837, 998-1002  the loop test fails: experiment_end.
experiment_end ==
    /\ AtLoopTest
    /\ LoopExits(stop)
    /\ calls' = Called("experiment_end")
    /\ pc' = "done"
    /\ UNCHANGED <<cfg, buildVars, loopVars, stop, err, hook, return_value, step_cap, obs>>
    /\ UNCHANGED <<avgVars, metrics_val, valVars, pgVars, stepVars, paramVars>>

\* The session is asked to stop from outside the loop (the coordinator, a
\* signal handled by session management) while the loop runs.
RequestStop ==
    /\ pc \in {"loop_top", "batch_top", "batch_do", "batch_end"}
    /\ ~stop
    /\ stop' = TRUE
    /\ obs' = [obs EXCEPT !.stop_by = @ \cup {"session"}]
    /\ UNCHANGED <<cfg, pc, buildVars, loopVars, err, hook, return_value, step_cap, calls>>
    /\ UNCHANGED <<avgVars, metrics_val, valVars, pgVars, stepVars, paramVars>>

\* ------------------------------------------------- utils.average_gradients

\* A gradient value handed to utils.average_gradients: a number, or None.
GradVals == {0, 1}
NoneVal == [none |-> TRUE, val |-> 0]
NumVal(x) == [none |-> FALSE, val |-> x]

\* zip(*tower_grads): as many groups as the shortest tower has pairs.
RECURSIVE MinLen(_, _)
MinLen(tg, t) ==
    IF t = Len(tg) THEN Len(tg[t])
    ELSE LET m == MinLen(tg, t + 1)
         IN  IF Len(tg[t]) < m THEN Len(tg[t]) ELSE m
ZipLen(tg) == IF tg = <<>> THEN 0 ELSE MinLen(tg, 1)

RECURSIVE SumSeq(_)
SumSeq(xs) == IF xs = <<>> THEN 0 ELSE Head(xs) + SumSeq(Tail(xs))

\* utils.py:263-264  tf.concat of the expanded gradients, then tf.reduce_mean
\* over the tower dimension: the sum over the number of towers, kept as the
\* fraction num/den.
ReduceMeanButFirst(gs) == [num |-> SumSeq(Tail(gs)), den |-> Len(gs)]
ReduceMean(gs) == [num |-> SumSeq(gs), den |-> Len(gs)]

\* utils.py:269  v = grad_and_vars[0][1]: the first tower's variable.
FirstTowerVar(grad_and_vars) == grad_and_vars[1].v

\* utils.py:235-273  average_gradients. tf.expand_dims(g, 0) raises on a None
\* gradient, and the exception leaves the function.
average_gradients(tg) ==
    LET n == ZipLen(tg)
        group(i) == [t \in 1..Len(tg) |-> tg[t][i]]
        raises == \E i \in 1..n : \E t \in 1..Len(tg) : tg[t][i].g.none
    IN  IF raises
        THEN [called |-> TRUE, raised |-> TRUE, average_grads |-> <<>>]
        ELSE [called |-> TRUE, raised |-> FALSE,
              average_grads |->
                 [i \in 1..n |->
                     [grad |-> ReduceMean([t \in 1..Len(tg) |-> tg[t][i].g.val]),
                      var |-> FirstTowerVar(group(i))]]]

\* A caller of utils.average_gradients: it hands over the towers' lists.
call_average_gradients ==
    /\ pc = "avg"
    /\ ~avg_out.called
    /\ avg_out' = average_gradients(tower_grads)
    /\ UNCHANGED <<mainVars, tower_grads, valVars, pgVars, stepVars, paramVars>>

\* The lists of (gradient, variable) pairs of k towers: every tower lists the
\* shared variables in the same order, with its own gradient for each.
Towers ==
    {[i \in Vars |-> [g |-> gs[i], v |-> i]] :
        gs \in [Vars -> {NumVal(x) : x \in GradVals} \cup {NoneVal}]}
TowerGrads == UNION {[1..k -> Towers] : k \in 1..MaxTowers}

\* ------------------------------------------------ validate.py: the image queue

\* validate.py:38  Queue.Queue(maxsize=10)
QueueMaxSize == 10

\* validate.py:39  the poison pill; the work items are the batches, numbered
\* from 1 in the order the batch loop puts them.
sentinel == 0

ValWorkers == 1..vcfg.nthreads

\* validate.py:40-46  a thread that has just been started.
NoWorker == [pc |-> "poll", img |-> -1, pills |-> 0, failed |-> FALSE,
             later |-> FALSE]

NoValLog == [gets |-> <<>>, done |-> <<>>, logged |-> {}, full |-> FALSE]

\* The loss sess.run returns for batch b of the set (validate.py:117-131).
BatchLoss(b) == b + 1

RECURSIVE LossUpTo(_)
LossUpTo(n) == IF n = 0 THEN 0 ELSE LossUpTo(n - 1) + BatchLoss(n - 1)

\* Queue.put: the item is appended and counted as unfinished.
QueuePut(item) ==
    /\ Len(img_queue) < QueueMaxSize
    /\ img_queue' = Append(img_queue, item)
    /\ unfinished' = unfinished + 1
    /\ vlog' = [vlog EXCEPT !.full = @ \/ Len(img_queue) + 1 = QueueMaxSize]

\* validate.py:67  prev_subset = None; a subset is the name of a video, or
\* 'default' in a set without subsets.
NoSubset == "None"
SubsetNames == {"default", "video"}

\* validate.py:84-85  not prev_subset or subset != prev_subset
SwitchingAlways(prev, subset) == TRUE
SwitchingSubset(prev, subset) == prev \in {NoSubset, ""} \/ subset # prev

\* validate.py:66-70  the resets before the first batch: one, noted -1, in a
\* segmentation (the reset operation is given).
ResetAtStart(task) == IF task = "seg" THEN <<-1>> ELSE <<>>

\* validate.py:32  cfg.valid_params['batch_size'] *= cfg.num_splits
BatchSizeAfter(batch_size, n) == batch_size * n

\* How many calls of validate a run is followed for.
MaxValCalls == 2

\* validate.py:27-70  validate is entered: the batch size of the shared
\* valid_params is multiplied in place, the set is built from valid_params, the
\* queue is created and the threads of save_images are started. (getattr of
\* the dict valid_params for 'resize_images', 28, is always False.)
val_begin ==
    /\ vmain \in {"start", "returned"}
    /\ Len(val_sets) < MaxValCalls
    /\ valid_params' = [valid_params EXCEPT
                           !.batch_size = BatchSizeAfter(@, num_splits)]
    /\ val_sets' = Append(val_sets, valid_params'.batch_size)
    /\ img_queue' = <<>>
    /\ unfinished' = 0
    /\ workers' = [w \in ValWorkers |-> NoWorker]
    /\ tot_loss' = 0
    /\ bidx' = 0
    /\ npills' = 0
    /\ vlog' = [NoValLog EXCEPT !.gets = [i \in 1..vcfg.nbatches |-> 0],
                                !.done = [i \in 1..vcfg.nbatches |-> 0]]
    /\ prev_subset' = NoSubset
    /\ cm_resets' = ResetAtStart(vcfg.task)
    /\ vmain' = "loop"
    /\ UNCHANGED <<vcfg, vstop, num_splits>>
    /\ UNCHANGED <<mainVars, avgVars, pgVars, stepVars>>

\* validate.py:72-197  one turn of the batch loop up to the put: the stop test,
\* the reset of the confusion matrix when the subset changes (with the error
\* of a stateful validation on a set without subsets), the session call and
\* the accumulation of the metrics.
val_batch ==
    /\ vmain = "loop"
    /\ IF bidx < vcfg.nbatches /\ ~vstop
       THEN LET subset == vcfg.subset[bidx + 1]
                reset == /\ vcfg.task # "reg"
                         /\ vcfg.set_has_GT
                         /\ SwitchingSubset(prev_subset, subset)
            IN  /\ cm_resets' = IF reset THEN Append(cm_resets, bidx)
                                ELSE cm_resets
                /\ IF reset /\ vcfg.stateful_validation /\ subset = "default"
                   THEN /\ vmain' = "raised"
                        /\ UNCHANGED <<tot_loss, prev_subset>>
                   ELSE /\ prev_subset' = IF reset THEN subset ELSE prev_subset
                        /\ tot_loss' = IF vcfg.set_has_GT
                                       THEN tot_loss + BatchLoss(bidx)
                                       ELSE tot_loss
                        /\ vmain' = "put"
       ELSE /\ vmain' = "pills"
            /\ UNCHANGED <<tot_loss, cmVars>>
    /\ UNCHANGED <<vcfg, bidx, npills, img_queue, unfinished, workers, vstop,
                   vlog>>
    /\ UNCHANGED <<mainVars, avgVars, pgVars, stepVars, paramVars>>

\* validate.py:198  img_queue.put of the batch; it blocks while the queue is
\* full.
val_put ==
    /\ vmain = "put"
    /\ QueuePut(bidx + 1)
    /\ bidx' = bidx + 1
    /\ vmain' = "loop"
    /\ UNCHANGED <<vcfg, npills, tot_loss, workers, vstop>>
    /\ UNCHANGED <<mainVars, avgVars, pgVars, stepVars, paramVars, cmVars>>

\* validate.py:203-204  how many poison pills follow the batch loop.
PillsOnlyOne(nthreads) == 1
PillsToPut(nthreads) == nthreads

\* validate.py:203-229  one poison pill after the other, then the summaries.
val_pill ==
    /\ vmain = "pills"
    /\ IF npills < PillsToPut(vcfg.nthreads)
       THEN /\ QueuePut(sentinel)
            /\ npills' = npills + 1
            /\ UNCHANGED vmain
       ELSE /\ vmain' = "join"
            /\ UNCHANGED <<npills, img_queue, unfinished, vlog>>
    /\ UNCHANGED <<vcfg, bidx, tot_loss, workers, vstop>>
    /\ UNCHANGED <<mainVars, avgVars, pgVars, stepVars, paramVars, cmVars>>

\* Queue.join returns once every item put has been marked done.
JoinReturnsAtOnce(n) == TRUE
JoinReturns(n) == n = 0

\* validate.py:230-233  img_queue.join(), then validate returns.
val_join ==
    /\ vmain = "join"
    /\ JoinReturns(unfinished)
    /\ vmain' = "returned"
    /\ UNCHANGED <<vcfg, bidx, npills, tot_loss, img_queue, unfinished, workers,
                   vstop, vlog>>
    /\ UNCHANGED <<mainVars, avgVars, pgVars, stepVars, paramVars, cmVars>>

\* validate.py:261-262  save_images: a stop was requested and the queue is
\* empty, the thread leaves its loop.
save_images_stop(w) ==
    /\ w \in ValWorkers
    /\ workers[w].pc = "poll"
    /\ vstop /\ img_queue = <<>>
    /\ workers' = [workers EXCEPT ![w].pc = "stopped"]
    /\ UNCHANGED <<vcfg, vmain, bidx, npills, tot_loss, img_queue, unfinished,
                   vstop, vlog>>
    /\ UNCHANGED <<mainVars, avgVars, pgVars, stepVars, paramVars, cmVars>>

\* Queue.get of a Queue.Queue: first in, first out.
QueueGetNewest(q) == [item |-> q[Len(q)], rest |-> SubSeq(q, 1, Len(q) - 1)]
QueueGet(q) == [item |-> Head(q), rest |-> Tail(q)]

\* validate.py:264-265, 387-388  img_queue.get(False): the oldest item, if
\* any; on Queue.Empty the thread polls again.
save_images_get(w) ==
    /\ w \in ValWorkers
    /\ workers[w].pc = "poll"
    /\ img_queue # <<>>
    /\ LET got == QueueGet(img_queue) IN
         /\ workers' = [workers EXCEPT ![w].pc = "work", ![w].img = got.item]
         /\ img_queue' = got.rest
         /\ vlog' = IF got.item = sentinel THEN vlog
                    ELSE [vlog EXCEPT !.gets[got.item] = @ + 1]
    /\ UNCHANGED <<vcfg, vmain, bidx, npills, tot_loss, unfinished, vstop>>
    /\ UNCHANGED <<mainVars, avgVars, pgVars, stepVars, paramVars, cmVars>>

\* validate.py:389-396  where the thread is after the handler of an error.
AfterErrorDead == "stopped"
AfterError == "poll"

\* validate.py:266-386, 389-396  the item in hand: the poison pill is marked
\* done and ends the thread; an image is saved and marked done; an error while
\* saving is logged, the item marked done and the loop goes on.
save_images_work(w) ==
    /\ w \in ValWorkers
    /\ workers[w].pc = "work"
    /\ unfinished' = unfinished - 1
    /\ LET img == workers[w].img IN
         IF img = sentinel
         THEN /\ workers' = [workers EXCEPT ![w].pc = "stopped", ![w].img = -1,
                                            ![w].pills = @ + 1]
              /\ UNCHANGED vlog
         ELSE IF img \in vcfg.bad
         THEN /\ workers' = [workers EXCEPT ![w].pc = AfterError, ![w].img = -1,
                                            ![w].failed = TRUE]
              /\ vlog' = [vlog EXCEPT !.done[img] = @ + 1,
                                      !.logged = @ \cup {img}]
         ELSE /\ workers' = [workers EXCEPT ![w].pc = "poll", ![w].img = -1,
                                            ![w].later = workers[w].failed]
              /\ vlog' = [vlog EXCEPT !.done[img] = @ + 1]
    /\ UNCHANGED <<vcfg, vmain, bidx, npills, tot_loss, img_queue, vstop>>
    /\ UNCHANGED <<mainVars, avgVars, pgVars, stepVars, paramVars, cmVars>>

\* The coordinator is asked to stop while validate runs.
val_request_stop ==
    /\ vmain \in {"loop", "put", "pills", "join"}
    /\ ~vstop
    /\ vstop' = TRUE
    /\ UNCHANGED <<vcfg, vmain, bidx, npills, tot_loss, img_queue, unfinished,
                   workers, vlog>>
    /\ UNCHANGED <<mainVars, avgVars, pgVars, stepVars, paramVars, cmVars>>

\* ------------------------------------------------- utils.process_gradients

MaxGrads == 2

\* A (gradient, variable) pair of the list: the gradient is a number or None;
\* scale is the factor a global-norm clip has put on it, num / sqrt(den_sq).
NoScale == [num |-> 1, den_sq |-> 1]
GradPair(g, v) == [g |-> g, v |-> v, scale |-> NoScale]

\* An optional argument, and the kinds of value clip_gradients is given.
NoArg == [none |-> TRUE, val |-> 0]
Arg(x) == [none |-> FALSE, val |-> x]
NoMultipliers == [none |-> TRUE, val |-> <<>>]
Multipliers(m) == [none |-> FALSE, val |-> m]
ClipNone == [kind |-> "None", val |-> 0]
ClipFloat(x) == [kind |-> "float", val |-> x]
ClipInt(x) == [kind |-> "int", val |-> x]
ClipCallable == [kind |-> "callable", val |-> 0]
ClipStr == [kind |-> "str", val |-> 0]

\* utils.py:208-210  _add_scaled_noise_to_gradients: a noise sample times the
\* scale is added to every gradient that is not None.
add_scaled_noise_to_gradients(gs, noise_scale, draw) ==
    [i \in 1..Len(gs) |->
        IF gs[i].g.none THEN gs[i]
        ELSE [gs[i] EXCEPT !.g.val = @ + draw[i] * noise_scale]]

\* utils.py:213-214  _multiply_gradients: the gradient of a variable named in
\* the multipliers is multiplied, every pair is kept.
multiply_gradients(gs, multipliers) ==
    [i \in 1..Len(gs) |->
        IF ~gs[i].g.none /\ gs[i].v \in DOMAIN multipliers
        THEN [gs[i] EXCEPT !.g.val = @ * multipliers[gs[i].v]]
        ELSE gs[i]]

\* utils.py:216  "if not gradients".
EmptyListNever(gs) == FALSE
EmptyList(gs) == gs = <<>>

RECURSIVE GlobalNormSq(_)
GlobalNormSq(gs) ==
    IF gs = <<>> THEN 0
    ELSE (IF Head(gs).g.none THEN 0 ELSE Head(gs).g.val * Head(gs).g.val)
         + GlobalNormSq(Tail(gs))

\* utils.py:224-225  _clip_gradients_by_norm: tf.clip_by_global_norm scales
\* every gradient by clip_norm / max(global_norm, clip_norm).
clip_gradients_by_norm(gs, clip_norm) ==
    LET n2 == GlobalNormSq(gs)
    IN  [i \in 1..Len(gs) |->
            IF gs[i].g.none \/ n2 <= clip_norm * clip_norm THEN gs[i]
            ELSE [gs[i] EXCEPT !.scale = [num |-> clip_norm, den_sq |-> n2]]]

\* utils.py:227  the transform a caller hands over: this one negates.
Negate(gs) ==
    [i \in 1..Len(gs) |->
        IF gs[i].g.none THEN gs[i] ELSE [gs[i] EXCEPT !.g.val = 0 - @]]

\* utils.py:223  isinstance(clip_gradients, float).
IsNumber(clip) == clip.kind \in {"float", "int"}
IsFloat(clip) == clip.kind = "float"

NoPG == [called |-> FALSE, raised |-> "none", gradients |-> <<>>, steps |-> <<>>]
PGRaised(e, steps) ==
    [called |-> TRUE, raised |-> e, gradients |-> <<>>, steps |-> steps]
PGReturned(gs, steps) ==
    [called |-> TRUE, raised |-> "none", gradients |-> gs, steps |-> steps]

\* utils.py:189-232  process_gradients. steps lists the stages that ran. The
\* noise and the norm clip unzip the list first, which raises ValueError on an
\* empty one.
process_gradients(a) ==
    LET noisy == ~a.noise_scale.none
        g1 == IF noisy
              THEN add_scaled_noise_to_gradients(a.gradients, a.noise_scale.val,
                                                 a.draw)
              ELSE a.gradients
        s1 == IF noisy THEN <<"noise">> ELSE <<>>
        mult == ~a.multipliers.none
        g2 == IF mult THEN multiply_gradients(g1, a.multipliers.val) ELSE g1
        s2 == IF mult THEN Append(s1, "multiply") ELSE s1
    IN  IF noisy /\ a.gradients = <<>> THEN PGRaised("ValueError", <<>>)
        ELSE IF mult /\ EmptyList(g2) THEN PGRaised("ValueError", s2)
        ELSE IF IsFloat(a.clip)
        THEN IF g2 = <<>> THEN PGRaised("ValueError", s2)
             ELSE PGReturned(clip_gradients_by_norm(g2, a.clip.val),
                             Append(s2, "clip_by_norm"))
        ELSE IF a.clip.kind = "callable"
        THEN PGReturned(Negate(g2), Append(s2, "clip_callable"))
        ELSE IF a.clip.kind # "None" THEN PGRaised("ValueError", s2)
        ELSE PGReturned(g2, s2)

\* A caller of utils.process_gradients.
call_process_gradients ==
    /\ pc = "process_gradients"
    /\ ~pg_out.called
    /\ pg_out' = process_gradients(pg_args)
    /\ UNCHANGED <<mainVars, avgVars, valVars, pg_args, stepVars, paramVars>>

\* The argument lists: up to MaxGrads pairs, one per variable.
PGVals == {1, 2}
PGLists ==
    UNION {[1..k -> {NumVal(x) : x \in PGVals} \cup {NoneVal}] : k \in 0..MaxGrads}
PGArgs ==
    {[gradients |-> [i \in 1..Len(gl) |-> GradPair(gl[i], i)],
      noise_scale |-> ns, draw |-> d, multipliers |-> mu, clip |-> cl] :
        gl \in PGLists,
        ns \in {NoArg, Arg(1)},
        d \in [1..MaxGrads -> {-1, 1}],
        mu \in {NoMultipliers, Multipliers(<<>>), Multipliers(<<3>>)},
        cl \in {ClipNone, ClipFloat(1), ClipFloat(3), ClipInt(1), ClipCallable,
                ClipStr}}

\* --------------------------------------------- the merged towers of a step

LabelsPerRow == 2

RECURSIVE Concat(_)
Concat(seqs) == IF seqs = <<>> THEN <<>> ELSE Head(seqs) \o Concat(Tail(seqs))

\* utils.py:35-38  the labels of a chunk, flattened: LabelsPerRow label
\* elements per row, row after row.
FlattenLabels(chunk) ==
    [k \in 1..(Len(chunk) * LabelsPerRow) |->
        [row |-> chunk[((k - 1) \div LabelsPerRow) + 1],
         el |-> ((k - 1) % LabelsPerRow) + 1]]

\* main.py:507-554  what replica slot computes from the chunk it is fed: one
\* output row per input row.
DevModelOut(slot, chunk) ==
    [j \in 1..Len(chunk) |-> [slot |-> slot, row |-> chunk[j]]]

\* utils.recursive_truncate_dict: the towers are concatenated in their order
\* and the first truncate_len entries kept.
recursive_truncate_dict(stacked, truncate_len) ==
    LET all == Concat(stacked)
    IN  SubSeq(all, 1, IF truncate_len < Len(all) THEN truncate_len ELSE Len(all))

\* main.py:642-645, 938  the model outputs are truncated to sym_num_batches,
\* fed with the number of rows of the minibatch.
OutTruncLenAll(feed) == Len(feed.slots) * feed.num_batches
OutTruncLen(feed) == feed.num_batches

\* main.py:646-649, 937  the losses are truncated to sym_num_devs, fed with
\* the number of active devices.
LossTruncLenAll(feed) == Len(feed.slots)
LossTruncLen(feed) == feed.num_devs

NoTrainStepOut ==
    [called |-> FALSE, raised |-> "none", n_splits |-> 0, chunks |-> <<>>,
     labels |-> <<>>, model_out |-> <<>>, loss_out |-> <<>>,
     avg_loss |-> [num |-> 0, den |-> 1]]

\* main.py:957-977, 635-671  what a training step computes from a minibatch of
\* rows rows when slot i's loss is dev_loss[i]: the chunks and their flattened
\* labels, the merged model outputs, the merged losses and their mean.
train_step(rows, dev_loss) ==
    LET n == ThisNSplits(rows, cfg.batch_size)
    IN  IF FeedError(n) # "none"
        THEN [NoTrainStepOut EXCEPT !.called = TRUE, !.raised = FeedError(n),
                                    !.n_splits = n]
        ELSE LET feed == get_feed_dict(rows, n, 0)
                 chunks == split_in_chunks(rows, n)
                 outs == [i \in 1..cfg.num_devs |->
                             DevModelOut(i - 1, feed.slots[i])]
                 losses == [i \in 1..cfg.num_devs |-> <<dev_loss[i]>>]
                 loss_out == recursive_truncate_dict(losses, LossTruncLen(feed))
             IN  [called |-> TRUE, raised |-> "none", n_splits |-> n,
                  chunks |-> chunks,
                  labels |-> [i \in 1..n |-> FlattenLabels(chunks[i])],
                  model_out |-> recursive_truncate_dict(outs, OutTruncLen(feed)),
                  loss_out |-> loss_out,
                  avg_loss |-> ReduceMean(loss_out)]

\* A training step on its own.
call_train_step ==
    /\ pc = "train_step"
    /\ ~step_out.called
    /\ step_out' = train_step(step_in.rows, step_in.dev_loss)
    /\ UNCHANGED <<mainVars, avgVars, valVars, pgVars, step_in, paramVars>>

NoTrainStep ==
    /\ step_in = [rows |-> 0, dev_loss |-> <<>>]
    /\ step_out = NoTrainStepOut

\* validate has not been called.
NoValidCalls ==
    /\ valid_params = [batch_size |-> 1]
    /\ num_splits = 1
    /\ val_sets = <<>>

\* ------------------------------------------------------------ specification

\* The configurations: main.py:170-172 (num_devs), the flags and the dataset.
\* The hook stops these runs after their first epoch; LoopConfigs below varies
\* its configuration.
Configs ==
    [num_devs : 1..MaxDevs,
     batch_size : 1..MaxBatch,
     val_on_sets : {<<"valid">>, <<"valid", "test">>},
     unused : {{}, {NVars}},
     nbatches : 1..MaxNBatches,
     train_summary_freq : {1, 2},
     val_every_epochs : {1},
     val_skip_first : {0},
     patience : {1},
     min_epochs : {0},
     max_epochs : {1}]

\* main.py:83-87  the object before __build_graph.
MainInit ==
    /\ graph_built = FALSE
    /\ cum_grads_and_vars = [v \in Vars |-> <<>>]
    /\ collections = <<>>
    /\ scope_log = {}
    /\ build = NoBuild
    /\ val_idx = 1
    /\ train_graph_outs = NoGraphOut
    /\ val_graph_outs = <<>>
    /\ global_step = 0
    /\ global_step_val = 0
    /\ epoch_id = 0
    /\ batch_id = 0
    /\ minibatch = 0
    /\ this_n_splits = 0
    /\ feed_dict = NoFeed
    /\ fetch = NoFetch
    /\ loss_value = 0
    /\ val_skip = 0
    /\ stop = FALSE
    /\ nsteps = 0
    /\ err = "none"
    /\ hook = NoHook
    /\ return_value = <<>>
    /\ calls = NoCalls
    /\ obs = NoObs
    /\ metrics_val = <<>>

NoAvg == [called |-> FALSE, raised |-> FALSE, average_grads |-> <<>>]

\* validate.py and utils.process_gradients before they are called.
NoValidate ==
    /\ vcfg = [nthreads |-> 1, nbatches |-> 0, bad |-> {}, task |-> "seg",
               set_has_GT |-> TRUE, stateful_validation |-> FALSE,
               subset |-> <<>>]
    /\ prev_subset = NoSubset
    /\ cm_resets = <<>>
    /\ vmain = "idle"
    /\ bidx = 0
    /\ npills = 0
    /\ tot_loss = 0
    /\ img_queue = <<>>
    /\ unfinished = 0
    /\ workers = <<>>
    /\ vstop = FALSE
    /\ vlog = NoValLog
NoPGArgs ==
    [gradients |-> <<>>, noise_scale |-> NoArg, draw |-> [i \in 1..MaxGrads |-> 1],
     multipliers |-> NoMultipliers, clip |-> ClipNone]
NoProcessGradients ==
    /\ pg_args = NoPGArgs
    /\ pg_out = NoPG

Init ==
    /\ cfg \in Configs
    /\ pc = "new"
    /\ MainInit
    /\ step_cap = MaxSteps
    /\ tower_grads = <<>>
    /\ avg_out = NoAvg
    /\ NoValidate
    /\ NoProcessGradients
    /\ NoTrainStep
    /\ NoValidCalls

Next ==
    \/ BuildGraph
    \/ BuildDevice
    \/ EndDeviceLoop
    \/ BuildGradOp
    \/ EndGradLoop
    \/ MergeTowers
    \/ Run
    \/ Validate
    \/ experiment_begin
    \/ epoch_begin
    \/ batch_begin
    \/ batch_do
    \/ batch_end
    \/ epoch_end
    \/ experiment_end
    \/ RequestStop

Spec == Init /\ [][Next]_vars

\* The construction of the graphs on its own, on machines of up to ManyDevs
\* devices: the decimal names of the slots then have one or two digits.
ManyDevs == 11

BuildInit ==
    /\ cfg \in [num_devs : 1..ManyDevs,
                batch_size : {1},
                val_on_sets : {<<"valid">>},
                unused : {{}, {NVars}},
                nbatches : {1},
                train_summary_freq : {1},
                val_every_epochs : {1},
                val_skip_first : {0},
                patience : {1},
                min_epochs : {0},
                max_epochs : {1}]
    /\ pc = "new"
    /\ MainInit
    /\ step_cap = 0
    /\ tower_grads = <<>>
    /\ avg_out = NoAvg
    /\ NoValidate
    /\ NoProcessGradients
    /\ NoTrainStep
    /\ NoValidCalls

BuildNext ==
    \/ BuildGraph
    \/ BuildDevice
    \/ EndDeviceLoop
    \/ BuildGradOp
    \/ EndGradLoop
    \/ MergeTowers

SpecBuild == BuildInit /\ [][BuildNext]_vars

\* utils.average_gradients on its own: any towers, then the call.
PlainCfg ==
    [num_devs |-> 1, batch_size |-> 1, val_on_sets |-> <<"valid">>,
     unused |-> {}, nbatches |-> 1, train_summary_freq |-> 1,
     val_every_epochs |-> 1, val_skip_first |-> 0, patience |-> 1,
     min_epochs |-> 0, max_epochs |-> 1]

AvgInit ==
    /\ cfg = PlainCfg
    /\ MainInit
    /\ step_cap = 0
    /\ pc = "avg"
    /\ tower_grads \in TowerGrads
    /\ avg_out = NoAvg
    /\ NoValidate
    /\ NoProcessGradients
    /\ NoTrainStep
    /\ NoValidCalls

AvgNext == call_average_gradients

SpecAvg == AvgInit /\ [][AvgNext]_vars

\* The loop and its hook on one small graph: the configurations of the hook,
\* and runs of up to MaxLoopSteps batches.
LoopConfigs ==
    [num_devs : {1},
     batch_size : {1},
     val_on_sets : {<<"valid">>},
     unused : {{}},
     nbatches : 1..MaxNBatches,
     train_summary_freq : {1},
     val_every_epochs : {1, 3},
     val_skip_first : {0, 1},
     patience : {0, 1},
     min_epochs : {0, 2},
     max_epochs : {2, 6}]

LoopInit ==
    /\ cfg \in LoopConfigs
    /\ pc = "new"
    /\ MainInit
    /\ step_cap = MaxLoopSteps
    /\ tower_grads = <<>>
    /\ avg_out = NoAvg
    /\ NoValidate
    /\ NoProcessGradients
    /\ NoTrainStep
    /\ NoValidCalls

SpecLoop == LoopInit /\ [][Next]_vars

\* main.py:822-837  _main_loop is one thread running its callbacks one after
\* the other: a callback that can run does run (the dataset yields the next
\* minibatch, the session returns from its run call).
LoopStep ==
    \/ experiment_begin
    \/ epoch_begin
    \/ batch_begin
    \/ batch_do
    \/ batch_end
    \/ epoch_end
    \/ experiment_end

SpecLoopFair == LoopInit /\ [][Next]_vars /\ WF_vars(LoopStep)

\* validate.py on its own: the batch loop, the image queue and its threads.
\* A set of MaxValBatches batches, more than the queue holds, is read by one
\* or two threads; the short sets by up to MaxThreads. The items that fail to
\* save are none, or the first.
MaxThreads == 2
MaxValBatches == 11

NoSubsets(n) == [i \in 1..n |-> "default"]

ValConfigs ==
    {c \in {[nthreads |-> t, nbatches |-> n, bad |-> b, task |-> "seg",
             set_has_GT |-> TRUE, stateful_validation |-> FALSE,
             subset |-> NoSubsets(n)] :
                t \in 1..MaxThreads, n \in {0, 2, MaxValBatches},
                b \in {{}, {1}}} :
        c.nbatches = MaxValBatches => c.nthreads <= 2}

ValInit ==
    /\ cfg = PlainCfg
    /\ MainInit
    /\ step_cap = 0
    /\ pc = "validate.py"
    /\ tower_grads = <<>>
    /\ avg_out = NoAvg
    /\ NoProcessGradients
    /\ NoTrainStep
    /\ NoValidCalls
    /\ vcfg \in ValConfigs
    /\ prev_subset = NoSubset
    /\ cm_resets = ResetAtStart(vcfg.task)
    /\ vmain = "loop"
    /\ bidx = 0
    /\ npills = 0
    /\ tot_loss = 0
    /\ img_queue = <<>>
    /\ unfinished = 0
    /\ workers = [w \in 1..vcfg.nthreads |-> NoWorker]
    /\ vstop = FALSE
    /\ vlog = [NoValLog EXCEPT !.gets = [i \in 1..vcfg.nbatches |-> 0],
                               !.done = [i \in 1..vcfg.nbatches |-> 0]]

\* validate.py:72-233  the steps of the thread that runs validate.
ValMain ==
    \/ val_batch
    \/ val_put
    \/ val_pill
    \/ val_join

\* validate.py:260-396  the steps of the thread w of save_images.
save_images(w) ==
    \/ save_images_stop(w)
    \/ save_images_get(w)
    \/ save_images_work(w)

ValNext ==
    \/ ValMain
    \/ \E w \in 1..MaxThreads : save_images(w)
    \/ val_request_stop

SpecVal == ValInit /\ [][ValNext]_vars

\* The threads are scheduled: a thread that can take a step takes one.
SpecValFair ==
    /\ ValInit
    /\ [][ValNext]_vars
    /\ WF_vars(ValMain)
    /\ \A w \in 1..MaxThreads : WF_vars(save_images(w))

\* validate called again and again in a run, on short sets: any batch size
\* of the validation set, any cfg.num_splits; and on a set of MaxSegBatches
\* batches read by one thread: any subsets, segmentation or regression, with
\* or without ground truth, stateful or not.
MaxSplits == 2
MaxSegBatches == 3

ValCallsConfigs ==
    {[nthreads |-> t, nbatches |-> n, bad |-> {}, task |-> "seg",
      set_has_GT |-> TRUE, stateful_validation |-> FALSE,
      subset |-> NoSubsets(n)] : t \in 1..MaxThreads, n \in {0, 1}}
    \cup [nthreads : {1}, nbatches : {MaxSegBatches}, bad : {{}},
          task : {"seg", "reg"}, set_has_GT : BOOLEAN,
          stateful_validation : BOOLEAN,
          subset : [1..MaxSegBatches -> SubsetNames]]

ValCallsInit ==
    /\ cfg = PlainCfg
    /\ MainInit
    /\ step_cap = 0
    /\ pc = "validate.py"
    /\ tower_grads = <<>>
    /\ avg_out = NoAvg
    /\ NoProcessGradients
    /\ NoTrainStep
    /\ valid_params \in [batch_size : 1..MaxBatch]
    /\ num_splits \in 1..MaxSplits
    /\ val_sets = <<>>
    /\ vcfg \in ValCallsConfigs
    /\ (vcfg.nbatches > 1 => valid_params.batch_size = 1 /\ num_splits = 1)
    /\ prev_subset = NoSubset
    /\ cm_resets = <<>>
    /\ vmain = "start"
    /\ bidx = 0
    /\ npills = 0
    /\ tot_loss = 0
    /\ img_queue = <<>>
    /\ unfinished = 0
    /\ workers = [w \in 1..vcfg.nthreads |-> NoWorker]
    /\ vstop = FALSE
    /\ vlog = [NoValLog EXCEPT !.gets = [i \in 1..vcfg.nbatches |-> 0],
                               !.done = [i \in 1..vcfg.nbatches |-> 0]]

ValCallsNext ==
    \/ val_begin
    \/ ValNext

SpecValCalls == ValCallsInit /\ [][ValCallsNext]_vars

\* utils.process_gradients on its own: any arguments, then the call.
PGInit ==
    /\ cfg = PlainCfg
    /\ MainInit
    /\ step_cap = 0
    /\ pc = "process_gradients"
    /\ tower_grads = <<>>
    /\ avg_out = NoAvg
    /\ NoValidate
    /\ pg_args \in PGArgs
    /\ pg_out = NoPG
    /\ NoTrainStep
    /\ NoValidCalls

PGNext == call_process_gradients

SpecPG == PGInit /\ [][PGNext]_vars

\* A training step on its own: any minibatch, the oversized and the empty
\* included, and any losses of the slots.
StepInit ==
    /\ cfg \in {[PlainCfg EXCEPT !.num_devs = t, !.batch_size = b] :
                    t \in 1..MaxDevs, b \in 1..MaxBatch}
    /\ MainInit
    /\ step_cap = 0
    /\ pc = "train_step"
    /\ tower_grads = <<>>
    /\ avg_out = NoAvg
    /\ NoValidate
    /\ NoProcessGradients
    /\ step_in \in [rows : 0..(cfg.num_devs * cfg.batch_size + ExtraRows),
                     dev_loss : [1..cfg.num_devs -> LossVals]]
    /\ step_out = NoTrainStepOut
    /\ NoValidCalls

StepNext == call_train_step

SpecStep == StepInit /\ [][StepNext]_vars

\* ------------------------------------------------------------------ claims

\* The step batch_do has just taken: it ran the train operation (batch_end is
\* next) or it raised.
AfterBatchDo == pc \in {"batch_end", "failed"}

\* C1: for every device count T, per-device batch size b and minibatch of r
\* rows with 1 <= r <= T*b, the active device count k that batch_do computes
\* satisfies (k-1)*b < r <= k*b and 1 <= k <= T; T=2, b=4, r=5 gives k=2.
C1_ActiveDeviceCount ==
    /\ (AfterBatchDo /\ minibatch \in 1..(cfg.num_devs * cfg.batch_size)) =>
          /\ (this_n_splits - 1) * cfg.batch_size < minibatch
          /\ minibatch <= this_n_splits * cfg.batch_size
          /\ this_n_splits \in 1..cfg.num_devs
    /\ ThisNSplits(5, 4) = 2

C1_Witness ==
    /\ pc = "batch_end"
    /\ cfg.num_devs = 2 /\ cfg.batch_size = 2
    /\ minibatch = 3 /\ this_n_splits = 2

\* C2: on every training step, whatever the number of rows of the minibatch
\* (more than T*b rows included), the active device count N of the step is
\* clamped to 1 <= N <= T, so that N-1 indexes one of the T train operations.
C2_ActiveCountClamped ==
    (AfterBatchDo /\ minibatch >= 1) => this_n_splits \in 1..cfg.num_devs

\* C3: a minibatch of zero rows makes the step fail with an error: batch_do
\* raises, runs no train operation (the graph's global step, the fetched
\* values and the rolling loss are untouched) and never goes on to batch_end.
C3_ZeroRowsFail ==
    [][(pc = "batch_do" /\ minibatch = 0 /\ pc' # "batch_do") =>
          /\ pc' = "failed"
          /\ err' # "none"
          /\ global_step' = global_step
          /\ fetch' = fetch
          /\ loss_value' = loss_value]_vars

C3_Witness == pc = "failed" /\ minibatch = 0 /\ err = "ValueError"

\* The graphs __build_graph has finished: the training graph and the
\* validation graphs built so far.
TrainBuilt == train_graph_outs # NoGraphOut
BuiltGraphOuts ==
    (IF TrainBuilt THEN {train_graph_outs} ELSE {})
    \cup {val_graph_outs[s] : s \in DOMAIN val_graph_outs}

\* C4: for every device ordinal k the train operation 'up to device k'
\* consumes, for each variable, exactly the first k+1 entries of the
\* variable's cumulative gradient list, none of them the gradient of a slot
\* j > k; there is one such operation for every k in 0..T-1.
C4_GradOpPrefix ==
    TrainBuilt =>
       /\ Len(train_graph_outs.grad_ops) = cfg.num_devs
       /\ \A k \in Slots(cfg.num_devs) : \A v \in Vars :
             LET a == train_graph_outs.grad_ops[k + 1].avg[v]
             IN  /\ a.var = v
                 /\ Len(a.grads) = k + 1
                 /\ a.grads = SubSeq(cum_grads_and_vars[v], 1, k + 1)
                 /\ \A i \in 1..Len(a.grads) : a.grads[i].dev <= k

C4_Witness ==
    /\ pc = "built" /\ cfg.num_devs = 3 /\ cfg.unused = {}
    /\ Len(train_graph_outs.grad_ops) = 3
    /\ train_graph_outs.grad_ops[2].avg[1].grads = <<Grad(0, 1), Grad(1, 1)>>

\* C7: in every graph built, for every device ordinal i >= 1 the summary
\* bucket i is bucket i-1 plus the summaries emitted while building replica
\* i, which bucket i-1 does not hold: the buckets grow monotonically.
C7_BucketsGrow ==
    \A g \in BuiltGraphOuts :
       /\ Len(g.summary_ops) = cfg.num_devs
       /\ \A i \in 1..(cfg.num_devs - 1) :
             /\ g.summary_ops[i] \subseteq g.summary_ops[i + 1]
             /\ g.summary_ops[i + 1] = g.summary_ops[i] \cup DevSummaries(i)
             /\ g.summary_ops[i] \cap DevSummaries(i) = {}

C7_Witness ==
    /\ pc = "built" /\ cfg.num_devs = 3
    /\ DevSummaries(2) \subseteq train_graph_outs.summary_ops[3]
    /\ DevSummaries(2) \cap train_graph_outs.summary_ops[2] = {}
    /\ "test" \in DOMAIN val_graph_outs

\* C8: in every graph built, for every device ordinal i no summary of bucket
\* i is computed from the output, loss or gradient of a device slot j > i
\* (a summary of the towers truncated at run time to the N = i+1 active slots
\* is computed from slots 0..i only).
C8_BucketOnlyActiveSlots ==
    \A g \in BuiltGraphOuts :
       \A i \in 1..Len(g.summary_ops) : \A e \in g.summary_ops[i] :
          ~e.trunc => e.srcs \subseteq Slots(i)

\* C9: towers are appended in ordinal order: entry j of the stacked loss and
\* output lists of every graph, and entry j of every variable's cumulative
\* gradient list, is the contribution of device slot j.
C9_TowersInOrdinalOrder ==
    /\ \A g \in BuiltGraphOuts :
          /\ g.model_outs = [j \in 1..cfg.num_devs |-> j - 1]
          /\ g.loss_outs = [j \in 1..cfg.num_devs |-> j - 1]
    /\ \A j \in 1..Len(build.stacked_loss_outs) : build.stacked_loss_outs[j] = j - 1
    /\ \A j \in 1..Len(build.stacked_model_outs) : build.stacked_model_outs[j] = j - 1
    /\ \A v \in Vars :
          /\ TrainBuilt => Len(cum_grads_and_vars[v]) = cfg.num_devs
          /\ \A j \in 1..Len(cum_grads_and_vars[v]) :
                cum_grads_and_vars[v][j] =
                    (IF v \in cfg.unused THEN NoneGrad ELSE Grad(j - 1, v))

C9_Witness ==
    /\ pc = "built" /\ cfg.num_devs = 3
    /\ cum_grads_and_vars[1] = <<Grad(0, 1), Grad(1, 1), Grad(2, 1)>>
    /\ train_graph_outs.loss_outs = <<0, 1, 2>>

\* C10: exactly one replica, ordinal 0 of the training graph, opens the model
\* and loss variable scopes without reuse (it creates the variables); every
\* replica of ordinal >= 1 and every replica of every validation graph opens
\* them with reuse enabled.
TrainPhase == PhaseSet("train", TRUE)

C10_OneReplicaCreates ==
    /\ \A r \in scope_log : r.reuse = ~(r.graph = TrainPhase /\ r.dev = 0)
    /\ pc = "built" =>
          /\ {<<r.graph, r.dev>> : r \in {x \in scope_log : ~x.reuse}}
                = {<<TrainPhase, 0>>}
          /\ \A d \in Slots(cfg.num_devs) : \A sc \in {"model", "loss"} :
                /\ \E r \in scope_log :
                      r.graph = TrainPhase /\ r.dev = d /\ r.scope = sc
                /\ \A i \in 1..Len(cfg.val_on_sets) : \E r \in scope_log :
                      /\ r.graph = PhaseSet(cfg.val_on_sets[i], FALSE)
                      /\ r.dev = d /\ r.scope = sc /\ r.reuse

C10_Witness ==
    /\ pc = "built" /\ cfg.num_devs = 3 /\ Len(cfg.val_on_sets) = 2
    /\ [graph |-> TrainPhase, dev |-> 0, scope |-> "model", reuse |-> FALSE]
          \in scope_log
    /\ [graph |-> TrainPhase, dev |-> 2, scope |-> "loss", reuse |-> TRUE]
          \in scope_log
    /\ [graph |-> PhaseSet("test", FALSE), dev |-> 0, scope |-> "model",
        reuse |-> TRUE] \in scope_log

\* Towers a and b of the list exchanged.
SwapTowers(tg, a, b) ==
    [t \in 1..Len(tg) |-> IF t = a THEN tg[b] ELSE IF t = b THEN tg[a] ELSE tg[t]]

\* The sum of the gradients the towers hold for the i-th variable, counted
\* value by value.
GradSum(tg, i) ==
    LET RECURSIVE S(_)
        S(t) == IF t = 0 THEN 0 ELSE tg[t][i].g.val + S(t - 1)
    IN  S(Len(tg))

\* C5: average_gradients over k towers whose gradients are numbers returns,
\* for each variable, exactly (g_0 + ... + g_{k-1}) / k paired with the first
\* tower's variable, and returns the same when two towers are exchanged
\* (hence under every permutation of the towers).
C5_AverageIsMean ==
    (avg_out.called /\ ~avg_out.raised) =>
       /\ Len(avg_out.average_grads) = NVars
       /\ \A i \in Vars :
             /\ avg_out.average_grads[i].grad =
                   [num |-> GradSum(tower_grads, i), den |-> Len(tower_grads)]
             /\ avg_out.average_grads[i].var = tower_grads[1][i].v
       /\ \A a, b \in 1..Len(tower_grads) :
             average_gradients(SwapTowers(tower_grads, a, b)) = avg_out

C5_Witness ==
    /\ avg_out.called /\ ~avg_out.raised
    /\ Len(tower_grads) = 3
    /\ tower_grads[1][1].g = NumVal(1) /\ tower_grads[2][1].g = NumVal(0)
    /\ tower_grads[3][1].g = NumVal(1)
    /\ avg_out.average_grads[1].grad = [num |-> 2, den |-> 3]

\* C6: gradient averaging tolerates a None gradient: whatever gradients the
\* towers hold, None included, averaging does not fail.
C6_NoneTolerated == avg_out.called => ~avg_out.raised

\* C11: a second call of __build_graph on the same Experiment raises
\* RuntimeError and builds nothing (no build variable changes), and the
\* already-built flag, set by the first build, is never cleared.
C11_NoSecondBuild ==
    [][/\ graph_built => graph_built'
       /\ (pc = "new" /\ pc' # "new") => graph_built'
       /\ (pc = "built" /\ BuildGraph) =>
              /\ pc' = "failed"
              /\ err' = "RuntimeError"
              /\ UNCHANGED buildVars]_vars
C11_Witness ==
    /\ pc = "failed"
    /\ err = "RuntimeError"
    /\ obs.entry = "none"
    /\ graph_built
    /\ Len(train_graph_outs.grad_ops) = cfg.num_devs

\* The order _main_loop runs its callbacks in: which callback can follow which.
LoopOrder ==
    {<<"none", "experiment_begin">>,
     <<"experiment_begin", "epoch_begin">>,
     <<"experiment_begin", "experiment_end">>,
     <<"epoch_begin", "batch_begin">>,
     <<"batch_begin", "batch_do">>,
     <<"batch_do", "batch_end">>,
     <<"batch_end", "batch_begin">>,
     <<"batch_end", "epoch_end">>,
     <<"epoch_end", "epoch_begin">>,
     <<"epoch_end", "experiment_end">>}

\* C12: the loop runs its callbacks in the order of the state machine:
\* experiment_begin once and first; in every epoch epoch_begin, then for each
\* batch batch_begin, batch_do, batch_end in this order, then epoch_end;
\* experiment_end once and last, also when the stop is requested before the
\* first epoch and no epoch runs.
C12_LoopOrder ==
    [][/\ calls' # calls => <<calls.last, calls'.last>> \in LoopOrder
       /\ calls'.count["experiment_begin"] <= 1
       /\ calls'.count["experiment_end"] <= 1
       /\ pc' = "done" =>
              /\ calls'.last = "experiment_end"
              /\ calls'.count["experiment_begin"] = 1
              /\ calls'.count["experiment_end"] = 1
       /\ (pc = "done" \/ calls.last = "experiment_end") => calls' = calls]_vars
C12_Witness ==
    /\ pc = "done"
    /\ calls.count["epoch_end"] = 2
    /\ calls.count["batch_end"] = 2
\* The same when the stop is requested before the first epoch.
C12_WitnessNoEpoch ==
    /\ pc = "done"
    /\ calls.count["epoch_begin"] = 0
    /\ calls.count["experiment_end"] = 1

\* C13: the stop request is checked at the top of every epoch and of every
\* batch iteration: once a stop has been requested no further minibatch is
\* pulled (batch_begin) or executed.
C13_NoPullAfterStop == ~obs.stop_at_pull

\* C14: after a stop request the loop still does its epoch-end bookkeeping:
\* every epoch_begin is followed by exactly one epoch_end before
\* experiment_end, and no batch is left between batch_begin and batch_end.
C14_EpochEndBeforeExit ==
    /\ calls.count["epoch_end"] <= calls.count["epoch_begin"]
    /\ calls.count["epoch_begin"] <= calls.count["epoch_end"] + 1
    /\ calls.count["batch_end"] <= calls.count["batch_begin"]
    /\ calls.count["batch_begin"] <= calls.count["batch_end"] + 1
    /\ calls.last = "experiment_end" =>
           /\ calls.count["epoch_end"] = calls.count["epoch_begin"]
           /\ calls.count["batch_end"] = calls.count["batch_begin"]
           /\ calls.count["batch_end"] = calls.count["epoch_end"] * cfg.nbatches
C14_Witness ==
    /\ calls.last = "experiment_end"
    /\ "session" \in obs.stop_by
    /\ obs.stop_at_pull
    /\ calls.count["epoch_end"] >= 1

\* C16: at every epoch_begin the epoch index is global_step div
\* batches_per_epoch, global_step being the step restored at start-up plus the
\* batches completed since; after a restart at step g the first epoch has index
\* g div batches_per_epoch, its batch index starts at 0 and it runs a full
\* batches_per_epoch batches.
C16_EpochIndex ==
    /\ calls.count["experiment_begin"] = 1 =>
           global_step_val = obs.restored + calls.count["batch_end"]
    /\ calls.last = "epoch_begin" =>
           /\ epoch_id = global_step_val \div cfg.nbatches
           /\ batch_id = 0
           /\ calls.count["epoch_begin"] = 1 =>
                  epoch_id = obs.restored \div cfg.nbatches
    /\ calls.last = "epoch_end" =>
           /\ batch_id = cfg.nbatches
           /\ calls.count["batch_end"] = calls.count["epoch_end"] * cfg.nbatches
C16_Witness ==
    /\ calls.last = "epoch_end"
    /\ calls.count["epoch_end"] = 1
    /\ obs.restored = 1
    /\ cfg.nbatches = 2
    /\ epoch_id = 0
    /\ global_step_val = 3

\* C17: with N active devices the train operation that is run is the one of
\* index N-1; the merged summary is fetched and written iff the global step
\* modulo train_summary_freq is zero, and then it is the summary operation of
\* index N-1, written at that step; otherwise only the loss and the train
\* operation are fetched.
C17_TrainOpAndSummary ==
    pc = "batch_end" =>
        /\ fetch.train_op = this_n_splits - 1
        /\ Len(train_graph_outs.grad_ops[fetch.train_op + 1].avg[1].grads)
               = this_n_splits
        /\ (fetch.summary_op # -1) <=>
               (global_step_val % cfg.train_summary_freq = 0)
        /\ fetch.summary_op # -1 =>
               /\ fetch.summary_op = this_n_splits - 1
               /\ fetch.summary_step = global_step_val
        /\ fetch.summary_op = -1 => fetch.summary_step = -1
C17_Witness ==
    /\ pc = "batch_end"
    /\ this_n_splits < cfg.num_devs
    /\ fetch.summary_op = this_n_splits - 1
    /\ global_step_val = 2

\* The rows of chunk k when rows 1..r are split in n chunks whose sizes differ
\* by one at most, the larger chunks first.
RowsOfChunk(r, n, k) ==
    LET small == r \div n
        big == r % n
        first == IF k <= big THEN (k - 1) * (small + 1)
                 ELSE big * (small + 1) + (k - 1 - big) * small
        size == IF k <= big THEN small + 1 ELSE small
    IN  [j \in 1..size |-> first + j]

\* C18: at every step all total_devices placeholders are fed: slot i < N gets
\* chunk i of the minibatch and every unused slot i >= N gets chunk 0.
C18_AllSlotsFed ==
    pc = "batch_end" =>
        /\ DOMAIN feed_dict.slots = 1..cfg.num_devs
        /\ \A i \in 1..cfg.num_devs :
               feed_dict.slots[i] =
                   RowsOfChunk(minibatch, this_n_splits,
                               IF i <= this_n_splits THEN i ELSE 1)
C18_Witness ==
    /\ pc = "batch_end"
    /\ this_n_splits = 2
    /\ cfg.num_devs = 3
    /\ minibatch = 3
    /\ feed_dict.slots[3] = <<1, 2>>

\* C15: the loop reaches Terminal when and only when the session management
\* has requested a stop, the maximum epoch is reached or early stop has
\* triggered, and under any of the three it eventually terminates.
C15_TerminalCauses ==
    /\ [](pc = "done" =>
              /\ stop
              /\ obs.stop_by # {}
              /\ obs.stop_by \subseteq {"session", "max_epochs", "early_stop"})
    /\ []((calls.last = "epoch_end" /\ epoch_id >= cfg.max_epochs - 1) => stop)
    /\ [](hook.estop => stop)
    /\ [](obs.stop_by # {} <=> stop)
    /\ (stop ~> pc \in {"done", "failed"})
C15_Witness ==
    /\ pc = "done"
    /\ obs.stop_by = {"early_stop"}
\* The two other causes of a stop.
C15_WitnessMaxEpochs ==
    /\ pc = "done"
    /\ obs.stop_by = {"max_epochs"}
C15_WitnessSession ==
    /\ pc = "done"
    /\ obs.stop_by = {"session"}

C21_NoEarlyStopBelowFloor ==
    [][(~hook.estop /\ hook'.estop) => epoch_id >= cfg.min_epochs]_vars
C21_Witness ==
    /\ hook.estop
    /\ cfg.min_epochs = 2
    /\ cfg.patience = 0
    /\ epoch_id = 2
    /\ hook.patience_counter = 2

\* The steps on which a validation completes: the history grows.
Validated == Len(hook'.history) = Len(hook.history) + 1

\* C22: on each completed validation the best model is saved iff the metric is
\* >= every metric of the history (a tie is an improvement); the history only
\* grows, by one metric per completed validation, and the maximum is taken over
\* the whole history.
C22_BestCheckpoint ==
    [][/\ \/ hook'.history = hook.history
          \/ Validated /\ SubSeq(hook'.history, 1, Len(hook.history)) = hook.history
       /\ Len(hook'.history) = Cardinality(obs'.val_epochs)
       /\ Validated =>
              LET m == hook'.history[Len(hook'.history)]
                  best == \A i \in 1..Len(hook.history) : m >= hook.history[i]
              IN  /\ best => /\ hook'.nsaves = hook.nsaves + 1
                             /\ hook'.saved = m
                  /\ ~best => /\ hook'.nsaves = hook.nsaves
                              /\ hook'.saved = hook.saved
       /\ ~Validated => (hook'.nsaves = hook.nsaves /\ hook'.saved = hook.saved)]_vars
C22_Witness ==
    /\ hook.history = <<2, 1, 2>>
    /\ hook.nsaves = 2
    /\ hook.saved = 2

\* C23: a run that reaches Terminal returns the best validation metric of the
\* run, the maximum of the validation history.
C23_ReturnsBest ==
    (pc = "done" /\ hook.history # <<>>) =>
        /\ Len(return_value) = 1
        /\ \E i \in 1..Len(hook.history) : return_value[1] = hook.history[i]
        /\ \A i \in 1..Len(hook.history) : return_value[1] >= hook.history[i]
C23_Witness ==
    /\ pc = "done"
    /\ hook.history = <<1, 2, 1>>
    /\ return_value = <<2>>


C25_EachItemOnce ==
    /\ \A i \in 1..vcfg.nbatches :
           /\ vlog.gets[i] <= 1
           /\ vlog.done[i] <= vlog.gets[i]
           /\ (vlog.gets[i] = 1) => i <= bidx
           /\ (i \in vlog.logged) => vlog.done[i] = 1
    /\ unfinished >= 0
    /\ Len(img_queue) <= 10
    /\ vmain = "returned" =>
           \A i \in 1..bidx : vlog.gets[i] = 1 /\ vlog.done[i] = 1

C25_Witness ==
    /\ vmain = "returned"
    /\ bidx = MaxValBatches
    /\ vlog.full
    /\ vlog.logged = {1}
    /\ \A i \in 1..bidx : vlog.gets[i] = 1 /\ vlog.done[i] = 1

\* C26: an error raised while a worker saves an item is caught and logged and
\* does not propagate: the step marks the item done, leaves the worker polling
\* and touches neither the main thread nor the stop flag; a worker only stops
\* on its poison pill or on a requested stop; and the loss the batch loop has
\* accumulated is that of the batches it ran, whichever items fail.
C26_WorkerErrorContained ==
    /\ [][\A w \in ValWorkers :
             (workers[w].pc = "work" /\ workers[w].img \in vcfg.bad
                /\ workers'[w] # workers[w]) =>
                 /\ workers'[w].pc = "poll"
                 /\ workers[w].img \in vlog'.logged
                 /\ vlog'.done[workers[w].img] = 1
                 /\ UNCHANGED <<vmain, bidx, tot_loss, vstop, img_queue>>]_vars
    /\ [](\A w \in ValWorkers :
             workers[w].pc = "stopped" => (workers[w].pills = 1 \/ vstop))
    /\ [](tot_loss = LossUpTo(IF vmain = "put" THEN bidx + 1 ELSE bidx))
    /\ []((vmain = "returned" /\ ~vstop) => tot_loss = LossUpTo(vcfg.nbatches))

C26_Witness ==
    /\ vmain = "returned"
    /\ ~vstop
    /\ vlog.logged = {1}
    /\ tot_loss = LossUpTo(MaxValBatches)
    /\ \E w \in ValWorkers : workers[w].failed /\ workers[w].later


\* C27: in run and in validate, when the session reports any variable as
\* uninitialized the call raises RuntimeError at once: no callback of the
\* training loop has run, no batch was pulled and no validation function was
\* called, and nothing runs afterwards.
C27_UninitFatal ==
    obs.uninit =>
        /\ pc = "failed"
        /\ err = "RuntimeError"
        /\ obs.entry \in {"run", "validate"}
        /\ calls = NoCalls
        /\ nsteps = 0
        /\ metrics_val = <<>>

C27_Witness ==
    /\ obs.uninit
    /\ obs.entry = "run"
    /\ pc = "failed"
    /\ err = "RuntimeError"

C27_WitnessValidate ==
    /\ obs.uninit
    /\ obs.entry = "validate"
    /\ pc = "failed"
    /\ err = "RuntimeError"


\* C28: process_gradients fails with an error when the list the gradient
\* multipliers yield is empty; it then returns no gradients and no clipping
\* stage has run.
C28_EmptyAfterMultipliers ==
    (/\ pg_out.called
     /\ ~pg_args.multipliers.none
     /\ multiply_gradients(pg_args.gradients, pg_args.multipliers.val) = <<>>) =>
        /\ pg_out.raised = "ValueError"
        /\ pg_out.gradients = <<>>
        /\ \A i \in 1..Len(pg_out.steps) :
               pg_out.steps[i] \notin {"clip_by_norm", "clip_callable"}

C28_Witness ==
    /\ pg_out.called
    /\ pg_args.gradients = <<>>
    /\ pg_args.noise_scale.none
    /\ pg_args.multipliers = Multipliers(<<3>>)
    /\ pg_args.clip = ClipFloat(1)
    /\ pg_out.raised = "ValueError"
    /\ pg_out.steps = <<"multiply">>

\* What the same call returns when it is given no clip value.
Unclipped == process_gradients([pg_args EXCEPT !.clip = ClipNone]).gradients

\* The list gs is the list us clipped to the global norm c: the gradients of
\* us under one common factor that is 1 when the norm of us is within c and
\* brings the norm down to c otherwise.
ClippedTo(gs, us, c) ==
    /\ Len(gs) = Len(us)
    /\ \A i \in 1..Len(gs) : gs[i].g = us[i].g /\ gs[i].v = us[i].v
    /\ \A i \in 1..Len(gs) :
           us[i].g.none => gs[i].scale = NoScale
    /\ \A i, j \in 1..Len(gs) :
           (~us[i].g.none /\ ~us[j].g.none) => gs[i].scale = gs[j].scale
    /\ \A i \in 1..Len(gs) :
           ~us[i].g.none =>
               IF GlobalNormSq(us) <= c * c
               THEN gs[i].scale = NoScale
               ELSE GlobalNormSq(us) * gs[i].scale.num * gs[i].scale.num
                        = c * c * gs[i].scale.den_sq

\* C29 as stated: a numeric threshold, float or integer, clips the list to
\* that global norm.
C29_NumericThresholdClips ==
    (pg_out.called /\ pg_args.gradients # <<>> /\ IsNumber(pg_args.clip)) =>
        /\ pg_out.raised = "none"
        /\ ClippedTo(pg_out.gradients, Unclipped, pg_args.clip.val)

\* What the code does for each kind of clip value (C29): on a non-empty list,
\* a float threshold clips the list to that global norm, a callable is applied
\* to the list, no clip value leaves the list as it is, and any other kind of
\* value, an integer threshold included, fails with ValueError and returns
\* nothing.
C29_ClipKinds ==
    (pg_out.called /\ pg_args.gradients # <<>>) =>
        /\ pg_args.clip.kind = "float" =>
               /\ pg_out.raised = "none"
               /\ ClippedTo(pg_out.gradients, Unclipped, pg_args.clip.val)
        /\ pg_args.clip.kind = "callable" =>
               /\ pg_out.raised = "none"
               /\ pg_out.gradients = Negate(Unclipped)
        /\ pg_args.clip.kind = "None" =>
               /\ pg_out.raised = "none"
               /\ \A i \in 1..Len(pg_out.gradients) :
                      pg_out.gradients[i].scale = NoScale
        /\ pg_args.clip.kind \notin {"float", "callable", "None"} =>
               /\ pg_out.raised = "ValueError"
               /\ pg_out.gradients = <<>>

C29_Witness ==
    /\ pg_out.called
    /\ pg_args.clip = ClipFloat(1)
    /\ Len(pg_args.gradients) = 2
    /\ pg_out.raised = "none"
    /\ pg_out.gradients[1].scale = [num |-> 1, den_sq |-> 8]

C29_WitnessInt ==
    /\ pg_out.called
    /\ pg_args.clip = ClipInt(1)
    /\ pg_args.gradients # <<>>
    /\ pg_out.raised = "ValueError"


\* C30: after every batch_end the host's counter global_step_val equals the
\* graph's global_step: both start from the restored value and each has been
\* incremented once per executed batch, so after n batches both are the
\* restored value plus n.
C30_StepCountersAgree ==
    calls.last = "batch_end" =>
        /\ global_step_val = global_step
        /\ global_step = obs.restored + calls.count["batch_end"]
        /\ calls.count["batch_do"] = calls.count["batch_end"]

C30_Witness ==
    /\ calls.last = "batch_end"
    /\ calls.count["batch_end"] = 2
    /\ obs.restored = 1
    /\ this_n_splits = 2
    /\ global_step = 3
    /\ global_step_val = 3


\* C31: the epoch index is never decreased and increases by exactly 1 from one
\* epoch_begin to the next, for any restored global step (a resume in the
\* middle of an epoch included); in a run started from global step 0,
\* global_step_val is a multiple of the batches per epoch at every epoch_begin.
C31_EpochIndexSteps ==
    [][/\ epoch_id' >= epoch_id
       /\ calls'.count["epoch_begin"] = calls.count["epoch_begin"] + 1 =>
              /\ calls.count["epoch_begin"] >= 1 => epoch_id' = epoch_id + 1
              /\ obs.restored = 0 => global_step_val' % cfg.nbatches = 0]_vars

C31_Witness ==
    /\ calls.last = "epoch_begin"
    /\ calls.count["epoch_begin"] = 2
    /\ obs.restored = 1
    /\ cfg.nbatches = 2
    /\ global_step_val = 3
    /\ epoch_id = 1

C31_WitnessFromZero ==
    /\ calls.last = "epoch_begin"
    /\ calls.count["epoch_begin"] = 2
    /\ obs.restored = 0
    /\ cfg.nbatches = 2
    /\ global_step_val = 2
    /\ epoch_id = 1


\* C32: the previous error fed to a training step is the average loss fetched
\* on the step before it, and 0 on the first step after experiment_begin; the
\* rolling loss is updated once per batch, by batch_do, which sets it to the
\* average loss it fetched, and no other callback of the loop changes it.
C32_RollingLoss ==
    [][/\ (calls'.count["batch_do"] = calls.count["batch_do"] + 1
             /\ pc' = "batch_end") =>
              /\ feed_dict'.prev_err =
                     IF calls.count["batch_do"] = 0 THEN 0 ELSE fetch.avg_loss
              /\ feed_dict'.prev_err = loss_value
              /\ loss_value' = fetch'.avg_loss
       /\ loss_value' # loss_value =>
              \/ calls'.count["batch_do"] = calls.count["batch_do"] + 1
              \/ calls'.count["experiment_begin"] =
                     calls.count["experiment_begin"] + 1]_vars

C32_Witness ==
    /\ pc = "batch_end"
    /\ calls.count["batch_do"] = 2
    /\ feed_dict.prev_err = 2
    /\ fetch.avg_loss = 1
    /\ loss_value = 1

C32_WitnessFirstStep ==
    /\ pc = "batch_end"
    /\ calls.count["batch_do"] = 1
    /\ feed_dict.prev_err = 0
    /\ loss_value = 2


\* The step ran and fed the graph.
StepFed == step_out.called /\ step_out.raised = "none"

\* C33: the average loss of a step with N active devices is the mean of the
\* losses of slots 0..N-1 only: it is their sum over N, and the same whatever
\* the filler slots N.. compute.
C33_AvgLossActiveSlots ==
    StepFed =>
        LET n == step_out.n_splits
        IN  /\ step_out.avg_loss =
                   [num |-> SumSeq(SubSeq(step_in.dev_loss, 1, n)), den |-> n]
            /\ \A other \in [1..cfg.num_devs -> LossVals] :
                   (\A i \in 1..n : other[i] = step_in.dev_loss[i]) =>
                       train_step(step_in.rows, other).avg_loss
                           = step_out.avg_loss

C33_Witness ==
    /\ StepFed
    /\ cfg.num_devs = 3
    /\ step_out.n_splits = 2
    /\ step_in.dev_loss = <<1, 2, 2>>
    /\ step_out.avg_loss = [num |-> 3, den |-> 2]

\* C34: the merged model outputs of a step are the first r rows of the slots'
\* outputs concatenated in ordinal order, r the rows of the minibatch: with N
\* active devices these are the outputs of slots 0..N-1 on chunks 0..N-1, so
\* that output row j is that of minibatch row j and no row comes from a filler
\* slot.
C34_MergedOutputs ==
    StepFed =>
        LET n == step_out.n_splits
            out == step_out.model_out
        IN  /\ Len(out) = step_in.rows
            /\ out = Concat([i \in 1..n |-> DevModelOut(i - 1, step_out.chunks[i])])
            /\ \A j \in 1..Len(out) :
                   /\ out[j].row = j
                   /\ out[j].slot < n
                   /\ \E k \in 1..Len(step_out.chunks[out[j].slot + 1]) :
                          step_out.chunks[out[j].slot + 1][k] = j

C34_Witness ==
    /\ StepFed
    /\ cfg.num_devs = 3
    /\ cfg.batch_size = 2
    /\ step_in.rows = 3
    /\ step_out.n_splits = 2
    /\ step_out.model_out = <<[slot |-> 0, row |-> 1], [slot |-> 0, row |-> 2],
                              [slot |-> 1, row |-> 3]>>

\* C35: a minibatch of r rows, 1 <= r <= T*b, is split into N = ceil(r/b)
\* chunks that are non-empty, hold at most b rows each and differ in size by at
\* most 1; their concatenation in chunk order is the minibatch, and that of
\* their flattened labels the flattened labels of the minibatch.
C35_Chunks ==
    (step_out.called /\ step_in.rows >= 1
        /\ step_in.rows <= cfg.num_devs * cfg.batch_size) =>
        LET r == step_in.rows
            b == cfg.batch_size
            chunks == step_out.chunks
            whole == [j \in 1..r |-> j]
        IN  /\ step_out.raised = "none"
            /\ (Len(chunks) - 1) * b < r /\ r <= Len(chunks) * b
            /\ \A i \in 1..Len(chunks) :
                   Len(chunks[i]) >= 1 /\ Len(chunks[i]) <= b
            /\ \A i, k \in 1..Len(chunks) :
                   Len(chunks[i]) - Len(chunks[k]) <= 1
            /\ Concat(chunks) = whole
            /\ Concat(step_out.labels) = FlattenLabels(whole)

C35_Witness ==
    /\ step_out.called
    /\ cfg.num_devs = 3
    /\ cfg.batch_size = 2
    /\ step_in.rows = 5
    /\ step_out.chunks = <<<<1, 2>>, <<3, 4>>, <<5>>>>
    /\ Len(step_out.labels[3]) = LabelsPerRow


\* C36: a stop requested while validate runs does not keep validate from
\* returning: validate is never left waiting in the join of the image queue,
\* after the stop, with items still unfinished and every thread of save_images
\* gone, a state no step leaves.
C36_StopNeverStrandsJoin ==
    ~(/\ vstop
      /\ vmain = "join"
      /\ unfinished > 0
      /\ \A w \in ValWorkers : workers[w].pc = "stopped")


\* C37: the order in which the threads of save_images finish the items is not
\* that of the queue: an item is finished before one put earlier only when
\* there are two or more threads, the earlier item then being in the hands of
\* another thread that took it first; a single thread takes each item after it
\* has finished every item put before it.
C37_OrderAcrossWorkers ==
    \A i, j \in 1..vcfg.nbatches :
        j < i =>
            /\ (vlog.done[i] > 0 /\ vlog.done[j] = 0) =>
                   /\ vcfg.nthreads >= 2
                   /\ \E w \in ValWorkers :
                          workers[w].pc = "work" /\ workers[w].img = j
            /\ (vcfg.nthreads = 1 /\ vlog.gets[i] > 0) => vlog.done[j] > 0

\* Two threads: the second item is finished while the first is still being
\* saved.
C37_Witness ==
    /\ vcfg.nthreads = 2
    /\ vcfg.nbatches >= 2
    /\ vlog.done[2] = 1
    /\ vlog.done[1] = 0

\* One thread: both items of a set finished, the second after the first.
C37_WitnessOneWorker ==
    /\ vcfg.nthreads = 1
    /\ vcfg.nbatches = 2
    /\ vlog.done = <<1, 1>>


\* C38: validate leaves the shared validation configuration as it found it:
\* every call of validate in a run builds its set with the same batch size,
\* that of valid_params before the first call.
C38_SameBatchSizeEveryCall ==
    \A i, j \in 1..Len(val_sets) : val_sets[i] = val_sets[j]


\* The batches whose turn of the loop of validate has run the subset test.
BatchesSeen == IF vmain \in {"put", "raised"} THEN bidx + 1 ELSE bidx

\* C39: in a segmentation validation on a set with ground truth the confusion
\* matrix is reset once before the first batch, then at the batches whose
\* subset is not that of the batch before them, the first batch included, once
\* each and in order, and at no batch that has the subset of the batch before
\* it.
C39_ResetOnSubsetChange ==
    (vcfg.task = "seg" /\ vcfg.set_has_GT /\ vmain # "start") =>
        LET switches == {b \in 0..(BatchesSeen - 1) :
                            b = 0 \/ vcfg.subset[b + 1] # vcfg.subset[b]}
        IN  /\ Len(cm_resets) = 1 + Cardinality(switches)
            /\ cm_resets[1] = -1
            /\ \A k \in 2..Len(cm_resets) :
                   /\ cm_resets[k] \in switches
                   /\ cm_resets[k - 1] < cm_resets[k]

\* Three batches, the first two of one video and the third of another: reset
\* before the loop, at the first batch and at the third, not at the second.
C39_Witness ==
    /\ vcfg.task = "seg"
    /\ vcfg.set_has_GT
    /\ vcfg.subset = <<"video", "video", "default">>
    /\ vmain = "returned"
    /\ cm_resets = <<-1, 0, 2>>


\* C40: whatever the number of devices, the train operation 'up to device k'
\* runs after the update operations of the slots 0..k and of no other slot,
\* while the train operations are built and in the graph handed back.
C40_UpdateOpsUpToDevice ==
    /\ \A k \in 1..Len(build.grad_ops) :
           build.grad_ops[k].deps = 0..(k - 1)
    /\ \A k \in 1..Len(train_graph_outs.grad_ops) :
           train_graph_outs.grad_ops[k].deps = 0..(k - 1)

====
